---------------------------- MODULE Spec2Model ----------------------------
(***************************************************************************)
(* A model of tools/takeSnapshot.js: the holder-reconstruction engine that *)
(* replays the transfer events of an ERC-20/721/1155 contract, merges the  *)
(* result into the persisted snapshot, sorts it and writes it back.        *)
(*                                                                         *)
(* Two specifications share the variables:                                 *)
(*   Spec        runs of main() against a chain that grows between runs    *)
(*   LedgerSpec  the three ledger functions on arbitrary event lists       *)
(***************************************************************************)
EXTENDS Integers, Sequences, FiniteSets, TLC

VARIABLES
  standard,                \* chain: the token standard the contract implements
  supported,               \* chain: the probes of detectContractType the contract answers
  deployBlock,             \* chain: block holding the contract-creation transaction
  height,                  \* chain: latest block number
  chain,                   \* chain: the contract's event log, ascending by block
  file,                    \* the snapshot file <symbol>-<address>.json, or NoFile
  refreshData,             \* argv.refresh
  startingBlock,           \* argv.block
  pc,                      \* where main() is suspended (the call it awaits)
  data,                    \* main: const data, the snapshot file as read
  existingHolders,         \* main: let existingHolders
  fromBlock,               \* main: let fromBlock
  contractDeploymentBlock, \* main: let contractDeploymentBlock
  currentBlock,            \* main: const currentBlock
  contractType,            \* main: const contractType
  eventName,               \* getPastEvents: eventName of the pass in progress
  i,                       \* getPastEvents: loop variable i
  events,                  \* getPastEvents: const events
  singleTransferEvents,    \* getERC1155Holders: result of the first pass
  queries,                 \* every contract.queryFilter call of the run, in order
  holders,                 \* main: let holders (the fresh computation)
  idx,                     \* main: position of the merge loop in Object.entries(holders)
  exitCode,                \* process exit status (NoExit while running)
  isValid,                 \* main: const isValid ("true", "false"; "undefined" before it)
  blockNumber,             \* getDeploymentBlock: loop variable blockNumber
  probes,                  \* detectContractType: the probes issued so far, in order
  error,                   \* console: the call whose failure ended the process
  outputCsv,               \* argv.csv
  outputs,                 \* what the run has written and printed at its end, in order
  codeQueries,             \* isContract: the addresses provider.getCode was asked for, in order
  totalTransactions,       \* main: let totalTransactions
  uniqueHolders,           \* main: let uniqueHolders (a Set)
  cacheFile,               \* tallySankoPets: the file SankoPetCache.json
  cache,                   \* tallySankoPets: let cache
  refreshAll,              \* tallySankoPets: --refreshall
  refreshEggs,             \* tallySankoPets: --refresheggs
  noPremint,               \* tallySankoPets: --no-premint
  petTokenId,              \* generateReport: loop variable tokenId
  petPc,                   \* generateReport: how the queryTokenURI call it awaits answers
  metadata,                \* generateReport: const metadata of the last call
  fetched,                 \* queryTokenURI: the token ids it has sent an eth_call for
  recipients,              \* cacheToCSV: const recipients, the rows of the CSV file
  airdropType,             \* cacheToCSV: const type
  airdropBatchSize,        \* cacheToCSV: const batchSize (argv.batch)
  airdropI,                \* airdropERC20/721/1155: loop variable i
  txs,                     \* the airdrop transactions sent, in order: their recipients
  airdropPc,               \* cacheToCSV: the call the sender awaits
  mergedWeights,           \* cacheToCSV: const mergedWeights, the weights in address order
  total,                   \* cacheToCSV: argv.total
  minimum,                 \* cacheToCSV: argv.minimum
  maximum,                 \* cacheToCSV: argv.maximum
  shareResult,             \* cacheToCSV: let result, the balances in address order
  sharePc                  \* cacheToCSV: where the distribution calculator is

vars == <<standard, supported, deployBlock, height, chain, file, refreshData,
          startingBlock, pc, data, existingHolders, fromBlock,
          contractDeploymentBlock, currentBlock, contractType, eventName, i,
          events, singleTransferEvents, queries, holders, idx, exitCode, isValid,
          blockNumber, probes, error, outputCsv, outputs, codeQueries,
          totalTransactions, uniqueHolders, cacheFile, cache,
          refreshAll, refreshEggs, noPremint, petTokenId, petPc, metadata,
          fetched, recipients, airdropType, airdropBatchSize, airdropI, txs,
          airdropPc, mergedWeights, total, minimum, maximum, shareResult,
          sharePc>>

chainVars == <<standard, supported, deployBlock, height, chain>>
argvVars  == <<refreshData, startingBlock, outputCsv>>
auxVars   == <<isValid, blockNumber, probes, error, outputs>>
loopVars  == <<codeQueries, totalTransactions, uniqueHolders>>
petVars   == <<cacheFile, cache, refreshAll, refreshEggs, noPremint, petTokenId,
               petPc, metadata, fetched>>
shareVars == <<mergedWeights, total, minimum, maximum, shareResult, sharePc>>
dropVars  == <<recipients, airdropType, airdropBatchSize, airdropI, txs,
               airdropPc>>
\* the state of the two other tools, which takeSnapshot.js leaves alone
otherTools == <<petVars, dropVars, shareVars>>

-----------------------------------------------------------------------------
(* Bounds of the model *)

MaxEvents == 2      \* events the contract emits in Spec
MaxNear   == 2      \* blocks up to MaxNear, and one block a window further, are mined in Spec
MaxLen    == 3      \* length of the event list in LedgerSpec (ERC20, ERC721)
MaxLen1155 == 2     \* length of the event list in LedgerSpec (ERC1155)
MaxFaultEvents == 1 \* events the contract emits in FaultSpec

-----------------------------------------------------------------------------
(* Program constants *)

batchSize == 1000   \* getPastEvents: const batchSize
PadWidth  == 19     \* formatBigIntToDecimal: padStart(19, '0')
Decimals  == 18     \* formatBigIntToDecimal: slice(0, -18) / slice(-18)

ZeroAddress == "Zero"             \* ethers.ZeroAddress
Null      == -1                   \* JavaScript null (a block number that is absent)
Undefined == -2                   \* JavaScript undefined
NoExit    == -1                   \* the process has not exited
Symbol    == "SYM"                \* token.symbol
TopCount  == 10                   \* sortedHolders.slice(0, 10)

\* fs.existsSync(outputFilePath) is false
NoFile ==
  [exists |-> FALSE, holders |-> <<>>, lastCheckedBlock |-> Undefined,
   deploymentBlock |-> Undefined, symbol |-> Symbol]

-----------------------------------------------------------------------------
(* JavaScript values.                                                      *)
(*                                                                         *)
(* An integer n is held as the pair (hi, lo) with n = hi * 10^18 + lo and  *)
(* |lo| far below 10^18, so that amounts of whole tokens and of base units *)
(* are both in reach.  A value is a record [t, hi, lo, s]: a BigInt        *)
(* ("bigint"), a Number ("number", an integer-valued double) or a String   *)
(* ("string", s a sequence of characters).                                 *)

Big(h, l)  == [t |-> "bigint", hi |-> h, lo |-> l, s |-> <<>>]
Num(h, l)  == [t |-> "number", hi |-> h, lo |-> l, s |-> <<>>]
Str(chars) == [t |-> "string", hi |-> 0, lo |-> 0, s |-> chars]
NaN        == [t |-> "NaN", hi |-> 0, lo |-> 0, s |-> <<>>]

Zero0n == Big(0, 0)

BigAdd(a, b) == Big(a.hi + b.hi, a.lo + b.lo)
BigSub(a, b) == Big(a.hi - b.hi, a.lo - b.lo)

\* a < b for integers held as pairs
PairLess(ah, al, bh, bl) == ah < bh \/ (ah = bh /\ al < bl)

IsNegative(v) == PairLess(v.hi, v.lo, 0, 0)

\* JavaScript truthiness of a BigInt: !x is true for 0n
Falsy(v) == v.hi = 0 /\ v.lo = 0

\* balance !== 0n : strict inequality, a Number is never strictly equal to 0n
StrictNotEqual0n(v) == ~(v.t = "bigint" /\ v.hi = 0 /\ v.lo = 0)

\* Conversion to a double: 53 significant bits.  With |lo| < 55 the nearest
\* double of hi * 10^18 + lo is hi * 10^18 when hi # 0 (half an ulp at 10^18
\* is 64, and 55.5 * 10^-18 just below 1.0 for a value scaled by 10^-18), and
\* distinct values with hi = 0 stay distinct and ordered.
Round53(h, l) == IF h # 0 THEN Num(h, 0) ELSE Num(0, l)

\* Number(balance) for a BigInt
Number(v) == Round53(v.hi, v.lo)

-----------------------------------------------------------------------------
(* Strings of decimal digits *)

DigitChars == <<"0", "1", "2", "3", "4", "5", "6", "7", "8", "9">>

IsDigit(c) == \E d \in 1..10 : DigitChars[d] = c
DigitOf(c) == (CHOOSE d \in 1..10 : DigitChars[d] = c) - 1

RECURSIVE NatToString(_)
NatToString(n) ==
  IF n < 10 THEN <<DigitChars[n + 1]>>
  ELSE NatToString(n \div 10) \o <<DigitChars[(n % 10) + 1]>>

RECURSIVE DigitsToNat(_)
DigitsToNat(ds) ==
  IF ds = <<>> THEN 0
  ELSE 10 * DigitsToNat(SubSeq(ds, 1, Len(ds) - 1)) + DigitOf(ds[Len(ds)])

Repeat(c, n) == [k \in 1..n |-> c]

\* String.prototype.padStart(width, '0')
PadStart(str, width) ==
  IF Len(str) >= width THEN str ELSE Repeat("0", width - Len(str)) \o str

\* String.prototype.slice(0, -n) and slice(-n)
SliceHead(str, n) == SubSeq(str, 1, Len(str) - n)
SliceTail(str, n) ==
  IF Len(str) <= n THEN str ELSE SubSeq(str, Len(str) - n + 1, Len(str))

RECURSIVE StripLeadingZeros(_)
StripLeadingZeros(ds) ==
  IF Len(ds) > 1 /\ ds[1] = "0" THEN StripLeadingZeros(Tail(ds)) ELSE ds

\* the digits of 10^18 - 1 - n for a number n given by 18 digits
NinesComplement(ds) == [k \in 1..Len(ds) |-> DigitChars[(9 - DigitOf(ds[k])) + 1]]

\* the decimal digits of hi * 10^18 + lo >= 0
MagnitudeToString(h, l) ==
  IF h = 0 THEN NatToString(l)
  ELSE IF l >= 0 THEN NatToString(h) \o PadStart(NatToString(l), Decimals)
  ELSE StripLeadingZeros(
         (IF h = 1 THEN <<>> ELSE NatToString(h - 1))
         \o NinesComplement(PadStart(NatToString((-l) - 1), Decimals)))

\* BigInt.prototype.toString() and String(number) for an integer-valued
\* number below 10^21
toString(v) ==
  IF v.t = "string" THEN v.s
  ELSE IF IsNegative(v) THEN <<"-">> \o MagnitudeToString(-v.hi, -v.lo)
  ELSE MagnitudeToString(v.hi, v.lo)

\* the pair (hi, lo) of the number a digit string denotes
DigitsToPair(ds) ==
  LET low  == SliceTail(ds, Decimals)
      high == SliceHead(ds, Len(low))
  IN IF Len(low) = Decimals /\ DigitOf(low[1]) >= 5
     THEN [hi |-> DigitsToNat(high) + 1,
           lo |-> -(DigitsToNat(NinesComplement(low)) + 1)]
     ELSE [hi |-> DigitsToNat(high), lo |-> DigitsToNat(low)]

AllDigits(str) == \A k \in 1..Len(str) : IsDigit(str[k])

\* String.prototype.replace('.', ''): the first point is removed
RECURSIVE RemoveFirstPoint(_)
RemoveFirstPoint(str) ==
  IF str = <<>> THEN <<>>
  ELSE IF str[1] = "." THEN Tail(str)
  ELSE <<str[1]>> \o RemoveFirstPoint(Tail(str))

\* BigInt(string): the string is empty (0n), or an optional '-' and digits;
\* anything else is a SyntaxError
BigIntParses(str) ==
  \/ str = <<>>
  \/ str[1] = "-" /\ Len(str) > 1 /\ AllDigits(Tail(str))
  \/ str[1] # "-" /\ AllDigits(str)

BigIntOf(str) ==
  IF str = <<>> THEN Zero0n
  ELSE IF str[1] = "-"
       THEN LET p == DigitsToPair(Tail(str)) IN Big(-p.hi, -p.lo)
       ELSE LET p == DigitsToPair(str) IN Big(p.hi, p.lo)

RECURSIVE TakeDigits(_)
TakeDigits(str) ==
  IF str # <<>> /\ IsDigit(str[1]) THEN <<str[1]>> \o TakeDigits(Tail(str))
  ELSE <<>>

\* String.prototype.padEnd for the fraction digits, cut to 18 digits
PadEnd(ds, width) ==
  IF Len(ds) >= width THEN SubSeq(ds, 1, width)
  ELSE ds \o Repeat("0", width - Len(ds))

\* parseFloat(x): the longest prefix of String(x) that is a decimal literal,
\* as a double.  The double of a balance string is held in units of 10^-18.
parseFloat(v) ==
  IF v.t = "number" THEN v
  ELSE
    LET str    == toString(v)
        neg    == str # <<>> /\ str[1] = "-"
        body   == IF neg THEN Tail(str) ELSE str
        whole  == TakeDigits(body)
        rest   == SubSeq(body, Len(whole) + 1, Len(body))
        frac   == IF rest # <<>> /\ rest[1] = "." THEN TakeDigits(Tail(rest))
                  ELSE <<>>
        p      == DigitsToPair(whole \o PadEnd(frac, Decimals))
    IN IF whole = <<>> /\ frac = <<>> THEN NaN
       ELSE IF neg THEN Round53(-p.hi, -p.lo)
       ELSE Round53(p.hi, p.lo)

\* formatBigIntToDecimal(bigIntValue)
formatBigIntToDecimal(bigIntValue) ==
  LET strValue    == toString(bigIntValue)
      paddedValue == PadStart(strValue, PadWidth)
      integerPart == SliceHead(paddedValue, Decimals)
      decimalPart == SliceTail(paddedValue, Decimals)
  IN Str(integerPart \o <<".">> \o decimalPart)

-----------------------------------------------------------------------------
(* JavaScript objects with string keys: an ordered map, a sequence of       *)
(* <<key, value>> entries in insertion order (the order of Object.entries). *)

Keys(obj) == {obj[k][1] : k \in 1..Len(obj)}
Has(obj, key) == key \in Keys(obj)
IndexOf(obj, key) == CHOOSE k \in 1..Len(obj) : obj[k][1] = key
Get(obj, key) == obj[IndexOf(obj, key)][2]

\* obj[key] = value: an existing key keeps its place, a new key goes last
Put(obj, key, value) ==
  IF Has(obj, key)
  THEN [obj EXCEPT ![IndexOf(obj, key)] = <<key, value>>]
  ELSE Append(obj, <<key, value>>)

\* delete obj[key]
Delete(obj, key) ==
  IF Has(obj, key)
  THEN LET k == IndexOf(obj, key)
       IN SubSeq(obj, 1, k - 1) \o SubSeq(obj, k + 1, Len(obj))
  ELSE obj

\* obj[key] = value where the keys are integer-like (token ids): such keys
\* are enumerated in ascending numeric order, whatever the insertion order
RECURSIVE PutIndexed(_, _, _)
PutIndexed(obj, key, value) ==
  IF obj = <<>> THEN <<<<key, value>>>>
  ELSE IF obj[1][1] = key THEN <<<<key, value>>>> \o Tail(obj)
  ELSE IF obj[1][1] > key THEN <<<<key, value>>>> \o obj
  ELSE <<obj[1]>> \o PutIndexed(Tail(obj), key, value)

\* if (!balances[key]) balances[key] = 0n, then the value read
GetOr0n(obj, key) ==
  IF Has(obj, key) /\ ~Falsy(Get(obj, key)) THEN Get(obj, key) ELSE Zero0n

-----------------------------------------------------------------------------
(* Events.  An event is a record [event, blockNumber, args]; args has the   *)
(* fields the ABI of its contract names.                                   *)

Ev(name, block, a) == [event |-> name, blockNumber |-> block, args |-> a]

\* the events of `log` with the given name, in order
RECURSIVE Named(_, _)
Named(log, name) ==
  IF log = <<>> THEN <<>>
  ELSE (IF log[1].event = name THEN <<log[1]>> ELSE <<>>) \o Named(Tail(log), name)

-----------------------------------------------------------------------------
(* getERC20Holders: the ledger of a fungible token *)

\* a ledger that never lets a balance go below zero: a debit larger than the
\* balance leaves 0n
ERC20TransferClamped(balances, event) ==
  LET from  == event.args.from
      to    == event.args.to
      valueBigInt == event.args.value
      left  == BigSub(GetOr0n(balances, from), valueBigInt)
      b1 == IF from # ZeroAddress
            THEN Put(balances, from, IF IsNegative(left) THEN Zero0n ELSE left)
            ELSE balances
  IN IF to # ZeroAddress
     THEN Put(b1, to, BigAdd(GetOr0n(b1, to), valueBigInt))
     ELSE b1

\* a ledger that treats the zero address as an account: the sender of a mint
\* is debited like any other sender
ERC20TransferDebitsZero(balances, event) ==
  LET from  == event.args.from
      to    == event.args.to
      valueBigInt == event.args.value
      b1 == Put(balances, from, BigSub(GetOr0n(balances, from), valueBigInt))
  IN IF to # ZeroAddress
     THEN Put(b1, to, BigAdd(GetOr0n(b1, to), valueBigInt))
     ELSE b1

\* the body of transferEvents.forEach
ERC20Transfer(balances, event) ==
  LET from  == event.args.from
      to    == event.args.to
      valueBigInt == event.args.value
      b1 == IF from # ZeroAddress
            THEN Put(balances, from, BigSub(GetOr0n(balances, from), valueBigInt))
            ELSE balances
  IN IF to # ZeroAddress
     THEN Put(b1, to, BigAdd(GetOr0n(b1, to), valueBigInt))
     ELSE b1

RECURSIVE ERC20Replay(_, _)
ERC20Replay(balances, transferEvents) ==
  IF transferEvents = <<>> THEN balances
  ELSE ERC20Replay(ERC20Transfer(balances, transferEvents[1]), Tail(transferEvents))

getERC20Holders(transferEvents) == ERC20Replay(<<>>, transferEvents)

-----------------------------------------------------------------------------
(* getERC721Holders: the ledger of a single-owner token *)

\* the body of transferEvents.forEach
ERC721Transfer(tokenOwners, event) ==
  LET from    == event.args.from
      to      == event.args.to
      tokenId == event.args.tokenId
      o1 == IF from # ZeroAddress THEN Delete(tokenOwners, tokenId) ELSE tokenOwners
  IN IF to # ZeroAddress THEN PutIndexed(o1, tokenId, to) ELSE o1

RECURSIVE ERC721Replay(_, _)
ERC721Replay(tokenOwners, transferEvents) ==
  IF transferEvents = <<>> THEN tokenOwners
  ELSE ERC721Replay(ERC721Transfer(tokenOwners, transferEvents[1]),
                    Tail(transferEvents))

ERC721Owners(transferEvents) == ERC721Replay(<<>>, transferEvents)

\* Object.values(tokenOwners).forEach(owner => holderCounts[owner]++)
RECURSIVE CountOwners(_, _)
CountOwners(holderCounts, owners) ==
  IF owners = <<>> THEN holderCounts
  ELSE LET owner == owners[1][2]
           count == IF Has(holderCounts, owner) THEN Get(holderCounts, owner).lo ELSE 0
       IN CountOwners(Put(holderCounts, owner, Num(0, count + 1)), Tail(owners))

getERC721Holders(transferEvents) == CountOwners(<<>>, ERC721Owners(transferEvents))

-----------------------------------------------------------------------------
(* getERC1155Holders: the ledger of a multi-token contract *)

\* balances[address][id] op= value, creating balances[address] and the id entry
Credit(balances, address, id, delta) ==
  LET inner == IF Has(balances, address) THEN Get(balances, address) ELSE <<>>
  IN Put(balances, address, PutIndexed(inner, id, BigAdd(GetOr0n(inner, id), delta)))

\* one (from, to, id, value) movement: the body shared by both forEach loops
ERC1155Move(balances, from, to, id, valueBigInt) ==
  LET b1 == IF from # ZeroAddress
            THEN Credit(balances, from, id, BigSub(Zero0n, valueBigInt))
            ELSE balances
  IN IF to # ZeroAddress THEN Credit(b1, to, id, valueBigInt) ELSE b1

\* the body of singleTransferEvents.forEach
ERC1155Single(balances, event) ==
  ERC1155Move(balances, event.args.from, event.args.to, event.args.id,
              event.args.value)

\* ids.forEach((id, index) => ...) of one TransferBatch event, from `index` on
RECURSIVE ERC1155BatchFrom(_, _, _)
ERC1155BatchFrom(balances, event, index) ==
  IF index > Len(event.args.ids) THEN balances
  ELSE ERC1155BatchFrom(
         ERC1155Move(balances, event.args.from, event.args.to,
                     event.args.ids[index], event.args.values[index]),
         event, index + 1)

\* a batch loop that starts at the second position of ids
ERC1155BatchSkipsFirst(balances, event) == ERC1155BatchFrom(balances, event, 2)

\* the body of batchTransferEvents.forEach
ERC1155Batch(balances, event) == ERC1155BatchFrom(balances, event, 1)

RECURSIVE ERC1155Singles(_, _)
ERC1155Singles(balances, singleEvents) ==
  IF singleEvents = <<>> THEN balances
  ELSE ERC1155Singles(ERC1155Single(balances, singleEvents[1]), Tail(singleEvents))

RECURSIVE ERC1155Batches(_, _)
ERC1155Batches(balances, batchEvents) ==
  IF batchEvents = <<>> THEN balances
  ELSE ERC1155Batches(ERC1155Batch(balances, batchEvents[1]), Tail(batchEvents))

\* the per-address-per-id map after both loops
ERC1155Balances(singleEvents, batchEvents) ==
  ERC1155Batches(ERC1155Singles(<<>>, singleEvents), batchEvents)

\* holders[address] += balances[address][id] over the ids of one address
RECURSIVE SumIds(_)
SumIds(inner) ==
  IF inner = <<>> THEN Zero0n ELSE BigAdd(inner[1][2], SumIds(Tail(inner)))

\* a collapse that leaves out the addresses whose id balances add up to 0n
ERC1155CollapseDropsZeros(balances) ==
  SelectSeq([k \in 1..Len(balances) |-> <<balances[k][1], SumIds(balances[k][2])>>],
            LAMBDA entry : entry[2] # Zero0n)

\* for (const address in balances) for (const id in balances[address]) ...
ERC1155Collapse(balances) ==
  [k \in 1..Len(balances) |-> <<balances[k][1], SumIds(balances[k][2])>>]

getERC1155Holders(singleEvents, batchEvents) ==
  ERC1155Collapse(ERC1155Balances(singleEvents, batchEvents))

\* the switch (contractType) of main, on the events of the scanned range
LedgerOf(type, log) ==
  CASE type = "ERC20"   -> getERC20Holders(Named(log, "Transfer"))
    [] type = "ERC721"  -> getERC721Holders(Named(log, "Transfer"))
    [] type = "ERC1155" -> getERC1155Holders(Named(log, "TransferSingle"),
                                             Named(log, "TransferBatch"))

-----------------------------------------------------------------------------
(* The snapshot file and the merge of main() *)

\* BigInt(String(balance).replace('.', '')) of one persisted balance
ReloadString(balance) == RemoveFirstPoint(toString(balance))

\* data.holders.reduce(...) completes: no BigInt(...) throws a SyntaxError
LoadParses(list) == \A k \in 1..Len(list) : BigIntParses(ReloadString(list[k][2]))

\* existingHolders = data.holders.reduce(...)
RECURSIVE LoadHolders(_, _)
LoadHolders(acc, list) ==
  IF list = <<>> THEN acc
  ELSE LoadHolders(Put(acc, list[1][1], BigIntOf(ReloadString(list[1][2]))),
                   Tail(list))

\* the value main stores for a balance: a decimal string or a Number
FormatBalance(type, balance) ==
  IF type = "ERC20" THEN formatBigIntToDecimal(balance) ELSE Number(balance)

\* a run that starts its merge from an empty map instead of the prior holders
FormatExistingDropsPrior(type, existing) == <<>>

\* for (const [holder, balance] of Object.entries(existingHolders)) ...
FormatExisting(type, existing) ==
  [k \in 1..Len(existing) |-> <<existing[k][1], FormatBalance(type, existing[k][2])>>]

\* a merge loop that keeps an address whatever isContract answers
MergeEntryKeepsContracts(type, existing, holder, balance, contract) ==
  IF StrictNotEqual0n(balance)
  THEN Put(existing, holder, FormatBalance(type, balance))
  ELSE Delete(existing, holder)

\* a merge loop that keeps the prior entry of an address that has one
MergeEntryKeepsPrior(type, existing, holder, balance, contract) ==
  IF StrictNotEqual0n(balance) /\ ~contract
  THEN (IF Has(existing, holder) THEN existing
        ELSE Put(existing, holder, FormatBalance(type, balance)))
  ELSE Delete(existing, holder)

\* one iteration of the merge loop, given the answer of isContract(holder)
MergeEntry(type, existing, holder, balance, contract) ==
  IF StrictNotEqual0n(balance) /\ ~contract
  THEN Put(existing, holder, FormatBalance(type, balance))
  ELSE Delete(existing, holder)

\* a merge loop that asks isContract for every entry, whatever its balance
MergeZerosAsksAll(existing, fresh, k) == [existing |-> existing, idx |-> k]

\* the entries whose iteration starts (totalTransactions++ and
\* uniqueHolders.add(holder)) when the loop goes on from entry k and stops at
\* entry `stop`, awaiting isContract, or at the end of the entries
Visited(k, stop, fresh) == {j \in k..stop : j <= Len(fresh)}

\* the iterations that need no isContract call (balance === 0n), from k on,
\* up to the next entry that awaits isContract or the end of the loop
RECURSIVE MergeZeros(_, _, _)
MergeZeros(existing, fresh, k) ==
  IF k <= Len(fresh) /\ ~StrictNotEqual0n(fresh[k][2])
  THEN MergeZeros(Delete(existing, fresh[k][1]), fresh, k + 1)
  ELSE [existing |-> existing, idx |-> k]

\* a comparator with its operands swapped: parseFloat(a) - parseFloat(b)
SortsBeforeAscending(b, a) ==
  LET fa == parseFloat(a)
      fb == parseFloat(b)
  IN fa.t = "number" /\ fb.t = "number" /\ PairLess(fb.hi, fb.lo, fa.hi, fa.lo)

\* the comparator ([, a], [, b]) => parseFloat(b) - parseFloat(a) is positive:
\* b sorts before a.  A NaN difference counts as 0.
SortsBefore(b, a) ==
  LET fa == parseFloat(a)
      fb == parseFloat(b)
  IN fa.t = "number" /\ fb.t = "number" /\ PairLess(fa.hi, fa.lo, fb.hi, fb.lo)

\* Array.prototype.sort is stable: an entry goes before the first entry it
\* sorts before
RECURSIVE InsertSorted(_, _)
InsertSorted(sorted, entry) ==
  IF sorted = <<>> THEN <<entry>>
  ELSE IF SortsBefore(entry[2], sorted[1][2]) THEN <<entry>> \o sorted
  ELSE <<sorted[1]>> \o InsertSorted(Tail(sorted), entry)

RECURSIVE SortFrom(_, _)
SortFrom(sorted, entries) ==
  IF entries = <<>> THEN sorted
  ELSE SortFrom(InsertSorted(sorted, entries[1]), Tail(entries))

\* Object.entries(existingHolders).sort(...)
SortHolders(existing) == SortFrom(<<>>, existing)

\* the object fs.writeJsonSync writes, as fs.readJsonSync reads it back
\* (JSON drops a key whose value is undefined; null stays null)
Snapshot(sortedHolders, lastChecked, deployment) ==
  [exists |-> TRUE, holders |-> sortedHolders, lastCheckedBlock |-> lastChecked,
   deploymentBlock |-> deployment, symbol |-> Symbol]

\* the whole merge as one function, for a run in which every address of
\* `contracts` answers isContract with true
RECURSIVE MergeAll(_, _, _, _, _)
MergeAll(type, existing, fresh, k, contracts) ==
  IF k > Len(fresh) THEN existing
  ELSE MergeAll(type,
                MergeEntry(type, existing, fresh[k][1], fresh[k][2],
                           fresh[k][1] \in contracts),
                fresh, k + 1, contracts)

\* the holder list a run persists from the persisted list `list` and the
\* fresh computation `fresh`
PersistedHolders(type, list, fresh, contracts) ==
  SortHolders(MergeAll(type, FormatExisting(type, LoadHolders(<<>>, list)),
                       fresh, 1, contracts))

-----------------------------------------------------------------------------
(* The chain: what the RPC provider answers *)

Holders   == {"A", "B", "C"}   \* addresses that can hold tokens
Contracts == {"C"}             \* addresses with code: provider.getCode # '0x'
TokenIds  == {1, 2}
SingleIds == {1}               \* token ids that TransferSingle events move in Spec
MintAmounts20     == {Big(1, 1), Big(1, 2)}   \* 10^18 + 1 and 10^18 + 2 base units
TransferAmounts20 == {Big(0, 1)}              \* 1 base unit
Amounts1155 == {Big(0, 1)}
DeployBlocks   == {1}
\* the block numbers at which Spec looks at the chain
Blocks(deployed) ==
  (deployed..MaxNear) \cup {deployed + batchSize + 1}

\* isContract(address), when provider.getCode answers
isContract(address) == address \in Contracts

\* net amount of token `id` received by `address` over `log` (id 0: ERC20)
RECURSIVE NetOf(_, _, _)
NetOf(log, address, id) ==
  IF log = <<>> THEN Zero0n
  ELSE LET e    == log[Len(log)]
           rest == NetOf(SubSeq(log, 1, Len(log) - 1), address, id)
           amt  == IF e.id = id THEN e.value ELSE Zero0n
           r1   == IF e.to = address THEN BigAdd(rest, amt) ELSE rest
       IN IF e.from = address THEN BigSub(r1, amt) ELSE r1

\* the single movements of an event list, batches unrolled
RECURSIVE Movements(_)
Movements(log) ==
  IF log = <<>> THEN <<>>
  ELSE LET e == log[1]
           a == e.args
       IN (CASE e.event = "TransferSingle" ->
                  <<[from |-> a.from, to |-> a.to, id |-> a.id, value |-> a.value]>>
             [] e.event = "TransferBatch" ->
                  [k \in 1..Len(a.ids) |->
                     [from |-> a.from, to |-> a.to, id |-> a.ids[k],
                      value |-> a.values[k]]]
             [] OTHER ->
                  <<[from |-> a.from, to |-> a.to, id |-> 0, value |-> a.value]>>)
          \o Movements(Tail(log))

\* what `address` holds of token `id` on the chain
OnChain(address, id) == NetOf(Movements(chain), address, id)

Covers(address, id, amount) ==
  LET b == OnChain(address, id)
  IN ~PairLess(b.hi, b.lo, amount.hi, amount.lo)

\* the owner of an ERC721 token on the chain (ZeroAddress: none)
RECURSIVE OwnerOn(_, _)
OwnerOn(log, tokenId) ==
  IF log = <<>> THEN ZeroAddress
  ELSE IF log[Len(log)].args.tokenId = tokenId THEN log[Len(log)].args.to
  ELSE OwnerOn(SubSeq(log, 1, Len(log) - 1), tokenId)

\* the events a well-behaved contract of each standard can emit next
NextERC20 ==
  {Ev("Transfer", height, [from |-> ZeroAddress, to |-> t, value |-> v]) :
     t \in Holders, v \in MintAmounts20}
  \cup
  {Ev("Transfer", height, [from |-> f, to |-> t, value |-> v]) :
     f \in Holders, t \in Holders \cup {ZeroAddress}, v \in TransferAmounts20}

NextERC721 ==
  {Ev("Transfer", height, [from |-> f, to |-> t, tokenId |-> n]) :
     f \in Holders \cup {ZeroAddress}, t \in Holders \cup {ZeroAddress}, n \in TokenIds}

NextSingle ==
  {Ev("TransferSingle", height, [from |-> f, to |-> t, id |-> n, value |-> v]) :
     f \in Holders \cup {ZeroAddress}, t \in Holders \cup {ZeroAddress},
     n \in SingleIds, v \in Amounts1155}

NextBatch ==
  {Ev("TransferBatch", height,
      [from |-> f, to |-> t, ids |-> <<1, 2>>, values |-> <<v, w>>]) :
     f \in Holders \cup {ZeroAddress}, t \in Holders \cup {ZeroAddress},
     v \in Amounts1155, w \in Amounts1155}

\* the sender owns what the event moves, and an event goes from one address
\* to another one
Allowed(e) ==
  /\ e.args.from # e.args.to
  /\ CASE standard = "ERC20" ->
            e.args.from # ZeroAddress => Covers(e.args.from, 0, e.args.value)
       [] standard = "ERC721" ->
            OwnerOn(chain, e.args.tokenId) = e.args.from
       [] standard = "ERC1155" ->
            e.args.from # ZeroAddress =>
              \A m \in {Movements(<<e>>)[k] : k \in 1..Len(Movements(<<e>>))} :
                 Covers(m.from, m.id, m.value)

EmittedBy(std) ==
  CASE std = "ERC20"   -> NextERC20
    [] std = "ERC721"  -> NextERC721
    [] std = "ERC1155" -> NextSingle \cup NextBatch

\* the events of the log in blocks lo..hi (contract.queryFilter)
RECURSIVE InRange(_, _, _)
InRange(log, lo, hi) ==
  IF log = <<>> THEN <<>>
  ELSE (IF lo <= log[1].blockNumber /\ log[1].blockNumber <= hi
        THEN <<log[1]>> ELSE <<>>) \o InRange(Tail(log), lo, hi)

\* contract.queryFilter(eventName, i, endBlock).  A null fromBlock is not a
\* block number: the window then starts at nullStart.
queryFilter(name, lo, hi, nullStart) ==
  Named(InRange(chain, IF lo = Null THEN nullStart ELSE lo, hi), name)

\* a block number in arithmetic and comparisons: null is 0
ToNumber(block) == IF block = Null THEN 0 ELSE block

\* a window of batchSize + 1 blocks: Math.min(i + batchSize, toBlock)
EndBlockOneMore(from, toBlock) ==
  IF ToNumber(from) + batchSize < toBlock
  THEN ToNumber(from) + batchSize ELSE toBlock

\* Math.min(i + batchSize - 1, toBlock)
EndBlock(from, toBlock) ==
  IF ToNumber(from) + batchSize - 1 < toBlock
  THEN ToNumber(from) + batchSize - 1 ELSE toBlock

-----------------------------------------------------------------------------
(* main(): one action per call it awaits *)

Idle == pc \in {"idle", "exited"}

\* the variables of main() and of the functions it calls, when a process starts
NewProcess(refresh, block, csv) ==
  /\ refreshData' = refresh
  /\ startingBlock' = block
  /\ outputCsv' = csv
  /\ outputs' = <<>>
  /\ data' = NoFile
  /\ existingHolders' = <<>>
  /\ fromBlock' = block
  /\ contractDeploymentBlock' = Undefined
  /\ currentBlock' = Undefined
  /\ contractType' = "none"
  /\ eventName' = "none"
  /\ i' = 0
  /\ events' = <<>>
  /\ singleTransferEvents' = <<>>
  /\ queries' = <<>>
  /\ holders' = <<>>
  /\ idx' = 0
  /\ codeQueries' = <<>>
  /\ totalTransactions' = 0
  /\ uniqueHolders' = {}
  /\ isValid' = "undefined"
  /\ blockNumber' = Undefined
  /\ probes' = <<>>

\* a process that writes what it has when it fails
AbortWritesPartial(code, call) ==
  /\ pc' = "exited"
  /\ exitCode' = code
  /\ error' = call
  /\ file' = Snapshot(<<>>, height, contractDeploymentBlock)
  /\ NewProcess(FALSE, 0, FALSE)
  /\ UNCHANGED chainVars

\* The process ends without having written anything, on the failure of
\* `call`: main returns false (status 0), process.exit(1) in the catch, or an
\* unhandled rejection (status 1).  Its memory is gone; the error is on the
\* console.
Abort(code, call) ==
  /\ pc' = "exited"
  /\ exitCode' = code
  /\ error' = call
  /\ NewProcess(FALSE, 0, FALSE)
  /\ UNCHANGED <<chainVars, file>>

\* the chain mines blocks between runs
Mine(block) ==
  /\ Idle
  /\ UNCHANGED otherTools
  /\ block > height
  /\ height' = block
  /\ pc' = "idle"
  /\ exitCode' = NoExit
  /\ error' = "none"
  /\ NewProcess(FALSE, 0, FALSE)
  /\ UNCHANGED <<standard, supported, deployBlock, chain, file>>

\* the contract emits an event in the latest block, which no run has read yet
Emit(e) ==
  /\ Idle
  /\ UNCHANGED otherTools
  /\ Len(chain) < MaxEvents
  /\ file.exists => file.lastCheckedBlock < height
  /\ Allowed(e)
  /\ chain' = Append(chain, e)
  /\ pc' = "idle"
  /\ exitCode' = NoExit
  /\ error' = "none"
  /\ NewProcess(FALSE, 0, FALSE)
  /\ UNCHANGED <<standard, supported, deployBlock, height, file>>

\* node tools/takeSnapshot.js --contract ... [--block b] [--refresh]:
\* main() up to its first await, getTokenInfo.  The chain has moved on since
\* the last snapshot was written.
StartRun(refresh, block, csv) ==
  /\ Idle
  /\ UNCHANGED otherTools
  /\ file.exists => file.lastCheckedBlock < height
  /\ pc' = "getTokenInfo"
  /\ exitCode' = NoExit
  /\ error' = "none"
  /\ NewProcess(refresh, block, csv)
  /\ UNCHANGED <<chainVars, file>>

\* getTokenInfo answers; then the snapshot file is read
GetTokenInfoReturn(ok) ==
  /\ pc = "getTokenInfo"
  /\ UNCHANGED otherTools
  /\ IF ~ok
     THEN \* if (!token) return false
          Abort(0, "getTokenInfo")
     ELSE IF file.exists /\ ~LoadParses(file.holders)
     THEN \* BigInt(...) throws outside the try: unhandled rejection
          Abort(1, "BigInt")
     ELSE IF file.exists
     THEN /\ data' = file
          /\ existingHolders' = LoadHolders(<<>>, file.holders)
          /\ pc' = IF file.deploymentBlock \notin {Null, Undefined, 0}
                   THEN "verifyDeploymentBlock" ELSE "getCurrentBlock"
          /\ UNCHANGED <<chainVars, file, argvVars, auxVars, fromBlock,
                         contractDeploymentBlock, currentBlock, contractType,
                         eventName, i, events, singleTransferEvents, queries,
                         holders, idx, loopVars, exitCode>>
     ELSE /\ pc' = "getDeploymentBlock"
          /\ UNCHANGED <<chainVars, file, argvVars, auxVars, data,
                         existingHolders, fromBlock, contractDeploymentBlock,
                         currentBlock, contractType, eventName, i, events,
                         singleTransferEvents, queries, holders, idx, loopVars, exitCode>>

\* checkBlockForDeployment(contractAddress, blockNumber): an error of the
\* block or receipt fetch is caught and answers false
checkBlockForDeployment(block, rpcOk) == rpcOk /\ block = deployBlock

\* a main that keeps the cached blocks when the verification fails
VerifyDeploymentBlockTrustsCache(rpcOk) ==
  /\ pc = "verifyDeploymentBlock"
  /\ UNCHANGED otherTools
  /\ isValid' = IF checkBlockForDeployment(data.deploymentBlock, rpcOk)
                THEN "true" ELSE "false"
  /\ fromBlock' = IF refreshData THEN data.deploymentBlock
                  ELSE data.lastCheckedBlock
  /\ contractDeploymentBlock' = data.deploymentBlock
  /\ pc' = "getCurrentBlock"
  /\ UNCHANGED <<chainVars, file, argvVars, data, existingHolders, currentBlock,
                 contractType, eventName, i, events, singleTransferEvents,
                 queries, holders, idx, loopVars, exitCode, blockNumber, probes, error, outputs>>

\* verifyDeploymentBlock(contractAddress, data.deploymentBlock) answers
VerifyDeploymentBlockReturn(rpcOk) ==
  /\ pc = "verifyDeploymentBlock"
  /\ UNCHANGED otherTools
  /\ isValid' = IF checkBlockForDeployment(data.deploymentBlock, rpcOk)
                THEN "true" ELSE "false"
  /\ IF checkBlockForDeployment(data.deploymentBlock, rpcOk)
     THEN /\ fromBlock' = IF refreshData THEN data.deploymentBlock
                          ELSE data.lastCheckedBlock
          /\ contractDeploymentBlock' = data.deploymentBlock
          /\ pc' = "getCurrentBlock"
     ELSE /\ pc' = "getDeploymentBlock"
          /\ UNCHANGED <<fromBlock, contractDeploymentBlock>>
  /\ UNCHANGED <<chainVars, file, argvVars, data, existingHolders, currentBlock,
                 contractType, eventName, i, events, singleTransferEvents,
                 queries, holders, idx, loopVars, exitCode, blockNumber, probes, error, outputs>>

\* getDeploymentBlock returns `result` to main, which assigns it to
\* contractDeploymentBlock and, when there is no snapshot file, to fromBlock
ReturnDeploymentBlock(result) ==
  /\ contractDeploymentBlock' = result
  /\ fromBlock' = IF data.exists THEN fromBlock ELSE result
  /\ pc' = "getCurrentBlock"

\* the scan loop of getDeploymentBlock at blockNumber = block: the block is
\* checked, or the loop is over and the function returns null
ScanFrom(block) ==
  /\ blockNumber' = block
  /\ IF block <= height
     THEN /\ pc' = "checkBlockForDeployment"
          /\ UNCHANGED <<fromBlock, contractDeploymentBlock>>
     ELSE ReturnDeploymentBlock(Null)

\* provider.getBlockNumber() of getDeploymentBlock answers or throws (outside
\* the try of main); then the scan starts at startingBlock
GetDeploymentBlockReturn(latestOk) ==
  /\ pc = "getDeploymentBlock"
  /\ UNCHANGED otherTools
  /\ IF ~latestOk
     THEN Abort(1, "getBlockNumber")
     ELSE /\ ScanFrom(startingBlock)
          /\ UNCHANGED <<chainVars, file, argvVars, data, existingHolders,
                         currentBlock, contractType, eventName, i, events,
                         singleTransferEvents, queries, holders, idx, loopVars, exitCode,
                         isValid, probes, error, outputs>>

\* checkBlockForDeployment(contractAddress, blockNumber) answers in the scan
\* loop: the block is returned, or the loop goes on with the next block
CheckBlockForDeploymentReturn(rpcOk) ==
  /\ pc = "checkBlockForDeployment"
  /\ UNCHANGED otherTools
  /\ IF checkBlockForDeployment(blockNumber, rpcOk)
     THEN /\ ReturnDeploymentBlock(blockNumber)
          /\ UNCHANGED blockNumber
     ELSE ScanFrom(blockNumber + 1)
  /\ UNCHANGED <<chainVars, file, argvVars, data, existingHolders, currentBlock,
                 contractType, eventName, i, events, singleTransferEvents,
                 queries, holders, idx, loopVars, exitCode, isValid, probes, error, outputs>>

\* getCurrentBlock answers; a failure is thrown outside the try.  Then
\* detectContractType issues its first probe.
GetCurrentBlockReturn(ok) ==
  /\ pc = "getCurrentBlock"
  /\ UNCHANGED otherTools
  /\ IF ~ok
     THEN Abort(1, "getCurrentBlock")
     ELSE /\ currentBlock' = height
          /\ pc' = "supportsInterface721"
          /\ UNCHANGED <<chainVars, file, argvVars, auxVars, data,
                         existingHolders, fromBlock, contractDeploymentBlock,
                         contractType, eventName, i, events,
                         singleTransferEvents, queries, holders, idx, loopVars, exitCode>>

\* commify(value) finds its pattern /^(-?)([0-9]*)(\.?)([0-9]*)$/ with a digit
\* in it; otherwise it throws
RECURSIVE CommifyTail(_, _)
CommifyTail(chars, dots) ==
  IF chars = <<>> THEN TRUE
  ELSE IF chars[1] = "." THEN dots = 0 /\ CommifyTail(Tail(chars), 1)
  ELSE IsDigit(chars[1]) /\ CommifyTail(Tail(chars), dots)

commify(chars) ==
  LET unsigned == IF chars # <<>> /\ chars[1] = "-" THEN Tail(chars) ELSE chars
  IN /\ CommifyTail(unsigned, 0)
     /\ \E k \in 1..Len(unsigned) : IsDigit(unsigned[k])

\* the "Top 10 holders" listing prints commify(balance.toString()) of the
\* first ten entries without a throw (the digits of a Number always match)
TopHoldersPrint(sortedHolders) ==
  \A k \in 1..Len(sortedHolders) :
     (k <= TopCount /\ sortedHolders[k][2].t = "string")
       => commify(sortedHolders[k][2].s)

\* what the end of the try block writes and prints, in the order of its
\* statements: the JSON snapshot, the CSV file when --csv is given, the
\* "Snapshot saved" message, the three counts, and the listing of the top
\* holders when commify does not throw in it
WriteOutputsCsvFirst(csv, listed) ==
  (IF csv THEN <<"csv">> ELSE <<>>) \o <<"json", "saved", "deltas">>
  \o (IF listed THEN <<"topHolders">> ELSE <<>>)

WriteOutputs(csv, listed) ==
  <<"json">> \o (IF csv THEN <<"csv">> ELSE <<>>) \o <<"saved", "deltas">>
  \o (IF listed THEN <<"topHolders">> ELSE <<>>)

\* The rest of the try block from index k of the merge loop on: the entries
\* that need no call, then the next isContract call, or else the sort, the
\* write of the snapshot, the listing of the top holders and process.exit(0),
\* or process.exit(1) in the catch when the listing throws
ContinueMerge(existing, fresh, k) ==
  LET r == MergeZeros(existing, fresh, k)
  IN /\ existingHolders' = r.existing
     /\ idx' = r.idx
     /\ totalTransactions' = totalTransactions + Cardinality(Visited(k, r.idx, fresh))
     /\ uniqueHolders' = uniqueHolders \cup {fresh[j][1] : j \in Visited(k, r.idx, fresh)}
     /\ codeQueries' = IF r.idx <= Len(fresh)
                       THEN Append(codeQueries, fresh[r.idx][1])
                       ELSE codeQueries
     /\ IF r.idx <= Len(fresh)
        THEN /\ pc' = "isContract"
             /\ UNCHANGED <<file, exitCode, error, outputs>>
        ELSE /\ file' = Snapshot(SortHolders(r.existing), currentBlock,
                                 contractDeploymentBlock)
             /\ pc' = "exited"
             /\ exitCode' = IF TopHoldersPrint(file'.holders) THEN 0 ELSE 1
             /\ error' = IF TopHoldersPrint(file'.holders) THEN "none"
                         ELSE "commify"
             /\ outputs' = WriteOutputs(outputCsv, TopHoldersPrint(file'.holders))

\* the ledger has its events: holders is computed, the prior balances are
\* formatted, and the merge loop starts
AfterFetch(type, singles, last) ==
  LET fresh == CASE type = "ERC20"   -> getERC20Holders(last)
                 [] type = "ERC721"  -> getERC721Holders(last)
                 [] type = "ERC1155" -> getERC1155Holders(singles, last)
  IN /\ holders' = fresh
     /\ ContinueMerge(FormatExisting(type, existingHolders), fresh, 1)

\* getPastEvents(contract, name, fromBlock, currentBlock) is entered: its
\* first window is queried, or the range is empty and it returns []
StartPass(type, name, singles, sofar) ==
  IF ToNumber(fromBlock) <= currentBlock
  THEN /\ eventName' = name
       /\ i' = fromBlock
       /\ events' = <<>>
       /\ singleTransferEvents' = singles
       /\ queries' = Append(sofar, [event |-> name, fromBlock |-> fromBlock,
                                    toBlock |-> EndBlock(fromBlock, currentBlock)])
       /\ pc' = "queryFilter"
       /\ UNCHANGED <<holders, existingHolders, idx, loopVars, file, exitCode, error, outputs>>
  ELSE \* no window: every pass returns [] without a call
       /\ eventName' = IF type = "ERC1155" THEN "TransferBatch" ELSE name
       /\ i' = fromBlock
       /\ events' = <<>>
       /\ singleTransferEvents' = singles
       /\ queries' = sofar
       /\ AfterFetch(type, singles, <<>>)

\* supportsInterface(contractAddress, interfaceId): what the contract answers,
\* false when the call throws
supportsInterface(interfaceId, rpcOk) == rpcOk /\ interfaceId \in supported

\* checkContractMethod(contractAddress, erc20Abi): true when the static call
\* of allowance returns, false when it throws
checkContractMethod(rpcOk) == rpcOk /\ "ERC20" \in supported

\* one more probe of detectContractType has answered
Probed(interface, rpcOk, answer) ==
  Append(probes, [probe |-> interface, threw |-> ~rpcOk, answer |-> answer])

\* detectContractType returns `type` to main, which enters the ledger of that
\* type: the first getPastEvents pass starts
ReturnContractType(type) ==
  /\ contractType' = type
  /\ StartPass(type, IF type = "ERC1155" THEN "TransferSingle" ELSE "Transfer",
               <<>>, queries)

\* the calls detectContractType awaits, in the order it issues them
ProbeCalls == {"supportsInterface721", "supportsInterface1155", "checkContractMethod"}

\* a detectContractType that probes the multi-token interface first
ProbeOfMultiFirst(call) ==
  CASE call = "supportsInterface721"  -> "ERC1155"
    [] call = "supportsInterface1155" -> "ERC721"
    [] call = "checkContractMethod"   -> "ERC20"

\* the probe detectContractType awaits, and the one it issues after it
ProbeOf(call) ==
  CASE call = "supportsInterface721"  -> "ERC721"
    [] call = "supportsInterface1155" -> "ERC1155"
    [] call = "checkContractMethod"   -> "ERC20"

ProbeAfter(call) ==
  CASE call = "supportsInterface721"  -> "supportsInterface1155"
    [] call = "supportsInterface1155" -> "checkContractMethod"
    [] call = "checkContractMethod"   -> "none"

\* what the probe detectContractType awaits answers
ProbeAnswer(call, rpcOk) ==
  IF call = "checkContractMethod" THEN checkContractMethod(rpcOk)
  ELSE supportsInterface(ProbeOf(call), rpcOk)

\* a detectContractType that returns ERC20 when its last probe answers false
ProbeReturnFallsThrough(rpcOk) ==
  /\ pc \in ProbeCalls
  /\ UNCHANGED otherTools
  /\ IF ProbeAnswer(pc, rpcOk) \/ ProbeAfter(pc) = "none"
     THEN /\ probes' = Probed(ProbeOf(pc), rpcOk, ProbeAnswer(pc, rpcOk))
          /\ ReturnContractType(ProbeOf(pc))
          /\ UNCHANGED <<chainVars, argvVars, data, fromBlock,
                         contractDeploymentBlock, currentBlock, isValid,
                         blockNumber>>
     ELSE /\ probes' = Probed(ProbeOf(pc), rpcOk, FALSE)
          /\ pc' = ProbeAfter(pc)
          /\ UNCHANGED <<chainVars, argvVars, data, fromBlock,
                         contractDeploymentBlock, currentBlock, isValid,
                         blockNumber, contractType, eventName, i, events,
                         singleTransferEvents, queries, holders,
                         existingHolders, idx, loopVars, file, exitCode, error, outputs>>

\* a detectContractType without the try/catch of its probes: a call that
\* throws ends the run in the catch of main
ProbeReturnPropagates(rpcOk) ==
  /\ pc \in ProbeCalls
  /\ UNCHANGED otherTools
  /\ IF ~rpcOk
     THEN Abort(1, pc)
     ELSE IF ProbeAnswer(pc, rpcOk)
     THEN /\ probes' = Probed(ProbeOf(pc), rpcOk, TRUE)
          /\ ReturnContractType(ProbeOf(pc))
          /\ UNCHANGED <<chainVars, argvVars, data, fromBlock,
                         contractDeploymentBlock, currentBlock, isValid,
                         blockNumber>>
     ELSE IF ProbeAfter(pc) = "none"
     THEN Abort(1, "detectContractType")
     ELSE /\ probes' = Probed(ProbeOf(pc), rpcOk, FALSE)
          /\ pc' = ProbeAfter(pc)
          /\ UNCHANGED <<chainVars, argvVars, data, fromBlock,
                         contractDeploymentBlock, currentBlock, isValid,
                         blockNumber, contractType, eventName, i, events,
                         singleTransferEvents, queries, holders,
                         existingHolders, idx, loopVars, file, exitCode, error, outputs>>

\* detectContractType: the probe it awaits answers.  A true answer is
\* returned as the type; after a false one the next probe is issued, or,
\* after the last probe, detectContractType returns false, main throws inside
\* its try, and the catch calls process.exit(1)
ProbeReturn(rpcOk) ==
  /\ pc \in ProbeCalls
  /\ UNCHANGED otherTools
  /\ IF ProbeAnswer(pc, rpcOk)
     THEN /\ probes' = Probed(ProbeOf(pc), rpcOk, TRUE)
          /\ ReturnContractType(ProbeOf(pc))
          /\ UNCHANGED <<chainVars, argvVars, data, fromBlock,
                         contractDeploymentBlock, currentBlock, isValid,
                         blockNumber>>
     ELSE IF ProbeAfter(pc) = "none"
     THEN Abort(1, "detectContractType")
     ELSE /\ probes' = Probed(ProbeOf(pc), rpcOk, FALSE)
          /\ pc' = ProbeAfter(pc)
          /\ UNCHANGED <<chainVars, argvVars, data, fromBlock,
                         contractDeploymentBlock, currentBlock, isValid,
                         blockNumber, contractType, eventName, i, events,
                         singleTransferEvents, queries, holders,
                         existingHolders, idx, loopVars, file, exitCode, error, outputs>>

\* contract.queryFilter(eventName, i, endBlock) answers or throws
QueryFilterReturn(ok, nullStart) ==
  /\ pc = "queryFilter"
  /\ UNCHANGED otherTools
  /\ IF ~ok
     THEN Abort(1, "queryFilter")
     ELSE /\ UNCHANGED <<chainVars, argvVars, isValid, blockNumber, probes,
                         data, fromBlock, contractDeploymentBlock,
                         currentBlock, contractType>>
          /\ LET q    == queries[Len(queries)]
                 all  == events \o queryFilter(eventName, q.fromBlock, q.toBlock,
                                               nullStart)
                 next == ToNumber(i) + batchSize
             IN IF next <= currentBlock
                THEN \* the next window of the same pass
                     /\ i' = next
                     /\ events' = all
                     /\ queries' = Append(queries,
                           [event |-> eventName, fromBlock |-> next,
                            toBlock |-> EndBlock(next, currentBlock)])
                     /\ UNCHANGED <<eventName, singleTransferEvents, holders,
                                    existingHolders, idx, loopVars, file, pc, exitCode,
                                    error, outputs>>
                ELSE IF contractType = "ERC1155" /\ eventName = "TransferSingle"
                THEN \* the second pass of getERC1155Holders
                     StartPass(contractType, "TransferBatch", all, queries)
                ELSE /\ i' = next
                     /\ events' = all
                     /\ UNCHANGED <<eventName, singleTransferEvents, queries>>
                     /\ AfterFetch(contractType, singleTransferEvents, all)

\* isContract(holder) answers or throws, for the entry the merge loop is at
IsContractReturn(ok) ==
  /\ pc = "isContract"
  /\ UNCHANGED otherTools
  /\ IF ~ok
     THEN Abort(1, "isContract")
     ELSE /\ ContinueMerge(
               MergeEntry(contractType, existingHolders, holders[idx][1],
                          holders[idx][2], isContract(holders[idx][1])),
               holders, idx + 1)
          /\ UNCHANGED <<chainVars, argvVars, isValid, blockNumber, probes,
                         data, fromBlock, contractDeploymentBlock,
                         currentBlock, contractType,
                         eventName, i, events, singleTransferEvents, queries,
                         holders>>

\* a getERC1155Holders that starts both getPastEvents passes before it awaits
\* them: two log windows are in flight
OutstandingBothPasses ==
  CASE pc = "getTokenInfo" -> {"contract.name", "contract.symbol"}
    [] pc = "queryFilter" /\ contractType = "ERC1155" ->
         {"contract.queryFilter TransferSingle", "contract.queryFilter TransferBatch"}
    [] pc \in {"idle", "exited", "ledger", "replayed"} -> {}
    [] OTHER -> {pc}

\* The network calls in flight while main() is suspended at pc.  Every await
\* of the program awaits one call, but for getTokenInfo, which awaits
\* Promise.all([contract.name(), contract.symbol()]).
Outstanding ==
  CASE pc = "getTokenInfo" -> {"contract.name", "contract.symbol"}
    [] pc \in {"verifyDeploymentBlock", "checkBlockForDeployment"} ->
         {"provider.getBlock / provider.getTransactionReceipt"}
    [] pc \in {"getDeploymentBlock", "getCurrentBlock"} -> {"provider.getBlockNumber"}
    [] pc \in {"supportsInterface721", "supportsInterface1155"} ->
         {"contract.supportsInterface"}
    [] pc = "checkContractMethod" -> {"method.staticCall"}
    [] pc = "queryFilter" -> {"contract.queryFilter"}
    [] pc = "isContract" -> {"provider.getCode"}
    [] OTHER -> {}

-----------------------------------------------------------------------------
(* tools/tallySankoPets.js and tools/cacheToCSV.js have not been started *)

\* fs.existsSync(cacheFileName) is false
NoCacheFile == [exists |-> FALSE, entries |-> <<>>]

\* queryTokenURI returns null
NullMetadata == [t |-> "null"]

PetsIdle ==
  /\ cacheFile = NoCacheFile
  /\ cache = <<>>
  /\ refreshAll = FALSE
  /\ refreshEggs = FALSE
  /\ noPremint = FALSE
  /\ petTokenId = 0
  /\ petPc = "idle"
  /\ metadata = NullMetadata
  /\ fetched = <<>>

AirdropIdle ==
  /\ recipients = <<>>
  /\ airdropType = "none"
  /\ airdropBatchSize = 0
  /\ airdropI = 0
  /\ txs = <<>>
  /\ airdropPc = "idle"

ShareIdle ==
  /\ mergedWeights = <<>>
  /\ total = 0
  /\ minimum = 0
  /\ maximum = 0
  /\ shareResult = <<>>
  /\ sharePc = "idle"

-----------------------------------------------------------------------------
\* answers of the calls whose failure is thrown or caught
Answers == BOOLEAN

\* In Spec the block and receipt fetches of checkBlockForDeployment answer,
\* --block is left at its default, and a probe throws only where an answer
\* would have been true (a probe that throws and a probe that answers false
\* are the same to detectContractType), and --csv is not given; FaultSpec,
\* ProbeSpec and PipelineSpec lift this.
BlockAnswers == {TRUE}
BlockHints   == {0}
CsvFlags     == {FALSE}
ProbeAnswers ==
  IF pc \in ProbeCalls /\ ~ProbeAnswer(pc, TRUE) THEN {TRUE} ELSE Answers

\* the first block of a window whose fromBlock is null, as the node or the
\* library chooses it: the first block of the chain or the latest one
NullStarts == {0, height}

\* takeSnapshot.js has not been run: the contract is deployed, it has not
\* emitted an event, and there is no snapshot file
TakeSnapshotIdle ==
  /\ standard \in {"ERC20", "ERC721", "ERC1155"}
  /\ supported = {standard}
  /\ deployBlock \in DeployBlocks
  /\ height = deployBlock
  /\ chain = <<>>
  /\ file = NoFile
  /\ refreshData = FALSE
  /\ startingBlock = 0
  /\ pc = "idle"
  /\ data = NoFile
  /\ existingHolders = <<>>
  /\ fromBlock = 0
  /\ contractDeploymentBlock = Undefined
  /\ currentBlock = Undefined
  /\ contractType = "none"
  /\ eventName = "none"
  /\ i = 0
  /\ events = <<>>
  /\ singleTransferEvents = <<>>
  /\ queries = <<>>
  /\ holders = <<>>
  /\ idx = 0
  /\ codeQueries = <<>>
  /\ totalTransactions = 0
  /\ uniqueHolders = {}
  /\ exitCode = NoExit
  /\ isValid = "undefined"
  /\ blockNumber = Undefined
  /\ probes = <<>>
  /\ error = "none"
  /\ outputCsv = FALSE
  /\ outputs = <<>>

Init ==
  /\ TakeSnapshotIdle
  /\ PetsIdle
  /\ AirdropIdle
  /\ ShareIdle

Next ==
  \/ \E block \in Blocks(deployBlock) : Mine(block)
  \/ \E e \in EmittedBy(standard) : Emit(e)
  \/ \E refresh \in BOOLEAN, block \in BlockHints, csv \in CsvFlags :
        StartRun(refresh, block, csv)
  \/ \E ok \in Answers : GetTokenInfoReturn(ok)
  \/ \E rpcOk \in BlockAnswers : VerifyDeploymentBlockReturn(rpcOk)
  \/ \E latestOk \in Answers : GetDeploymentBlockReturn(latestOk)
  \/ \E rpcOk \in BlockAnswers : CheckBlockForDeploymentReturn(rpcOk)
  \/ \E ok \in Answers : GetCurrentBlockReturn(ok)
  \/ \E rpcOk \in ProbeAnswers : ProbeReturn(rpcOk)
  \/ \E ok \in Answers, nullStart \in NullStarts : QueryFilterReturn(ok, nullStart)
  \/ \E ok \in Answers : IsContractReturn(ok)

Spec == Init /\ [][Next]_vars

-----------------------------------------------------------------------------
(* Runs of main() in which the block and receipt fetches may fail and       *)
(* --block may name a block after the deployment: fewer events, and no      *)
(* block a window further, so that the scans stay short.                    *)

\* --block: the default, a block after the one that deploys the contract, or
\* a block the chain has not reached
FaultHints == {0, MaxNear, MaxNear + 1}

FaultEmit(e) == Len(chain) < MaxFaultEvents /\ Emit(e)

\* A chain reorganisation moves the contract-creation transaction to another
\* block, before the contract has emitted an event: the deploymentBlock of a
\* snapshot written before it is stale.
Reorg(block) ==
  /\ Idle
  /\ UNCHANGED otherTools
  /\ chain = <<>>
  /\ block # deployBlock
  /\ block <= height
  /\ deployBlock' = block
  /\ pc' = "idle"
  /\ exitCode' = NoExit
  /\ error' = "none"
  /\ NewProcess(FALSE, 0, FALSE)
  /\ UNCHANGED <<standard, supported, height, chain, file>>

FaultNext ==
  \/ \E block \in deployBlock..MaxNear : Mine(block)
  \/ \E block \in 1..MaxNear : Reorg(block)
  \/ \E e \in EmittedBy(standard) : FaultEmit(e)
  \/ \E refresh \in BOOLEAN, block \in FaultHints, csv \in CsvFlags :
        StartRun(refresh, block, csv)
  \/ \E ok \in Answers : GetTokenInfoReturn(ok)
  \/ \E rpcOk \in Answers : VerifyDeploymentBlockReturn(rpcOk)
  \/ \E latestOk \in Answers : GetDeploymentBlockReturn(latestOk)
  \/ \E rpcOk \in Answers : CheckBlockForDeploymentReturn(rpcOk)
  \/ \E ok \in Answers : GetCurrentBlockReturn(ok)
  \/ \E rpcOk \in ProbeAnswers : ProbeReturn(rpcOk)
  \/ \E ok \in Answers, nullStart \in NullStarts : QueryFilterReturn(ok, nullStart)
  \/ \E ok \in Answers : IsContractReturn(ok)

FaultSpec == Init /\ [][FaultNext]_vars

-----------------------------------------------------------------------------
(* Runs of main() against a contract that answers any subset of the three   *)
(* probes, each of which may throw; the contract has emitted no event.      *)

Interfaces == {"ERC721", "ERC1155", "ERC20"}

ProbeInit ==
  /\ supported \in SUBSET Interfaces
  /\ standard \in Interfaces
  /\ supported # {} => standard \in supported
  /\ deployBlock \in DeployBlocks
  /\ height = deployBlock
  /\ chain = <<>>
  /\ file = NoFile
  /\ refreshData = FALSE
  /\ startingBlock = 0
  /\ pc = "idle"
  /\ data = NoFile
  /\ existingHolders = <<>>
  /\ fromBlock = 0
  /\ contractDeploymentBlock = Undefined
  /\ currentBlock = Undefined
  /\ contractType = "none"
  /\ eventName = "none"
  /\ i = 0
  /\ events = <<>>
  /\ singleTransferEvents = <<>>
  /\ queries = <<>>
  /\ holders = <<>>
  /\ idx = 0
  /\ codeQueries = <<>>
  /\ totalTransactions = 0
  /\ uniqueHolders = {}
  /\ exitCode = NoExit
  /\ isValid = "undefined"
  /\ blockNumber = Undefined
  /\ probes = <<>>
  /\ error = "none"
  /\ outputCsv = FALSE
  /\ outputs = <<>>
  /\ PetsIdle
  /\ AirdropIdle
  /\ ShareIdle

ProbeNext ==
  \/ \E block \in Blocks(deployBlock) : Mine(block)
  \/ \E refresh \in BOOLEAN, block \in BlockHints, csv \in CsvFlags :
        StartRun(refresh, block, csv)
  \/ \E ok \in Answers : GetTokenInfoReturn(ok)
  \/ \E rpcOk \in BlockAnswers : VerifyDeploymentBlockReturn(rpcOk)
  \/ \E latestOk \in Answers : GetDeploymentBlockReturn(latestOk)
  \/ \E rpcOk \in BlockAnswers : CheckBlockForDeploymentReturn(rpcOk)
  \/ \E ok \in Answers : GetCurrentBlockReturn(ok)
  \/ \E rpcOk \in Answers : ProbeReturn(rpcOk)
  \/ \E ok \in Answers, nullStart \in NullStarts : QueryFilterReturn(ok, nullStart)

ProbeSpec == ProbeInit /\ [][ProbeNext]_vars

-----------------------------------------------------------------------------
(* Runs of main() with and without --csv, against a contract that emits     *)
(* fewer events than in Spec.                                                *)

PipelineNext ==
  \/ \E block \in Blocks(deployBlock) : Mine(block)
  \/ \E e \in EmittedBy(standard) : FaultEmit(e)
  \/ \E refresh \in BOOLEAN, block \in BlockHints, csv \in BOOLEAN :
        StartRun(refresh, block, csv)
  \/ \E ok \in Answers : GetTokenInfoReturn(ok)
  \/ \E rpcOk \in BlockAnswers : VerifyDeploymentBlockReturn(rpcOk)
  \/ \E latestOk \in Answers : GetDeploymentBlockReturn(latestOk)
  \/ \E rpcOk \in BlockAnswers : CheckBlockForDeploymentReturn(rpcOk)
  \/ \E ok \in Answers : GetCurrentBlockReturn(ok)
  \/ \E rpcOk \in ProbeAnswers : ProbeReturn(rpcOk)
  \/ \E ok \in Answers, nullStart \in NullStarts : QueryFilterReturn(ok, nullStart)
  \/ \E ok \in Answers : IsContractReturn(ok)

PipelineSpec == Init /\ [][PipelineNext]_vars

-----------------------------------------------------------------------------
(* getPastEvents on ranges of every shape.  A run is suspended at            *)
(* getCurrentBlock; the snapshot it has read holds no deployment block, so   *)
(* that its log fetch starts at --block, whatever block that is.             *)

WindowStarts      == {1, 2, batchSize + 1, 3 * batchSize + 1}
WindowHeights     == {2, batchSize, batchSize + 1, 2 * batchSize + 1, 3 * batchSize}
WindowEventBlocks == {2, batchSize, batchSize + 1, 2 * batchSize + 1}

\* the first and the second event of the contract's log in WindowSpec
WindowEvent(std, k, block) ==
  CASE std = "ERC721" ->
         Ev("Transfer", block,
            [from |-> ZeroAddress, to |-> IF k = 1 THEN "A" ELSE "B", tokenId |-> k])
    [] std = "ERC1155" /\ k = 1 ->
         Ev("TransferSingle", block,
            [from |-> ZeroAddress, to |-> "A", id |-> 1, value |-> Big(0, 1)])
    [] std = "ERC1155" /\ k = 2 ->
         Ev("TransferBatch", block,
            [from |-> ZeroAddress, to |-> "B", ids |-> <<1, 2>>,
             values |-> <<Big(0, 1), Big(0, 1)>>])

\* the logs of at most two events, ascending by block, up to the latest block
WindowLogs(std, latest) ==
  {<<>>}
  \cup {<<WindowEvent(std, 1, b)>> : b \in {c \in WindowEventBlocks : c <= latest}}
  \cup {<<WindowEvent(std, 1, b[1]), WindowEvent(std, 2, b[2])>> :
          b \in {c \in WindowEventBlocks \X WindowEventBlocks :
                   c[1] <= c[2] /\ c[2] <= latest}}

WindowInit ==
  /\ standard \in {"ERC721", "ERC1155"}
  /\ supported = {standard}
  /\ deployBlock = 1
  /\ height \in WindowHeights
  /\ chain \in WindowLogs(standard, height)
  /\ file = Snapshot(<<>>, 1, Null)
  /\ refreshData = FALSE
  /\ startingBlock \in WindowStarts
  /\ pc = "getCurrentBlock"
  /\ data = file
  /\ existingHolders = <<>>
  /\ fromBlock = startingBlock
  /\ contractDeploymentBlock = Undefined
  /\ currentBlock = Undefined
  /\ contractType = "none"
  /\ eventName = "none"
  /\ i = 0
  /\ events = <<>>
  /\ singleTransferEvents = <<>>
  /\ queries = <<>>
  /\ holders = <<>>
  /\ idx = 0
  /\ codeQueries = <<>>
  /\ totalTransactions = 0
  /\ uniqueHolders = {}
  /\ exitCode = NoExit
  /\ isValid = "undefined"
  /\ blockNumber = Undefined
  /\ probes = <<>>
  /\ error = "none"
  /\ outputCsv = FALSE
  /\ outputs = <<>>
  /\ PetsIdle
  /\ AirdropIdle
  /\ ShareIdle

WindowNext ==
  \/ \E ok \in Answers : GetCurrentBlockReturn(ok)
  \/ \E rpcOk \in ProbeAnswers : ProbeReturn(rpcOk)
  \/ \E ok \in Answers, nullStart \in NullStarts : QueryFilterReturn(ok, nullStart)
  \/ \E ok \in Answers : IsContractReturn(ok)

WindowSpec == WindowInit /\ [][WindowNext]_vars

-----------------------------------------------------------------------------
(* The ledger functions on arbitrary event lists: getPastEvents hands the   *)
(* ledger whatever the node answers, in the order it answers.              *)

LedgerAddresses == {ZeroAddress, "A", "B"}
LedgerAmounts   == {Big(0, 1), Big(0, 2)}

\* equal-length ids and values arrays of a TransferBatch event
BatchShapes ==
  {[ids |-> <<>>, values |-> <<>>]}
  \cup {[ids |-> <<n>>, values |-> <<v>>] : n \in TokenIds, v \in {Big(0, 1)}}
  \cup {[ids |-> <<n, m>>, values |-> <<Big(0, 1), v>>] :
          n \in TokenIds, m \in TokenIds, v \in LedgerAmounts}

AnyERC20 ==
  {Ev("Transfer", 1, [from |-> f, to |-> t, value |-> v]) :
     f \in LedgerAddresses, t \in LedgerAddresses, v \in LedgerAmounts}

AnyERC721 ==
  {Ev("Transfer", 1, [from |-> f, to |-> t, tokenId |-> n]) :
     f \in LedgerAddresses, t \in LedgerAddresses, n \in TokenIds}

AnySingle ==
  {Ev("TransferSingle", 1, [from |-> f, to |-> t, id |-> n, value |-> v]) :
     f \in LedgerAddresses, t \in LedgerAddresses, n \in TokenIds,
     v \in {Big(0, 1)}}

AnyBatch ==
  {Ev("TransferBatch", 1,
      [from |-> f, to |-> t, ids |-> sh.ids, values |-> sh.values]) :
     f \in LedgerAddresses, t \in LedgerAddresses, sh \in BatchShapes}

\* getPastEvents returns one more "Transfer" event to getERC20Holders or
\* getERC721Holders
ReceiveTransfer(e) ==
  /\ pc = "ledger"
  /\ UNCHANGED otherTools
  /\ standard \in {"ERC20", "ERC721"}
  /\ Len(events) < MaxLen
  /\ events' = Append(events, e)
  /\ UNCHANGED <<chainVars, file, argvVars, pc, data, existingHolders, fromBlock,
                 contractDeploymentBlock, currentBlock, contractType, eventName,
                 i, singleTransferEvents, queries, holders, idx, loopVars, exitCode,
                 auxVars>>

\* the first pass of getERC1155Holders returns one more TransferSingle event
ReceiveSingle(e) ==
  /\ pc = "ledger"
  /\ UNCHANGED otherTools
  /\ standard = "ERC1155"
  /\ Len(singleTransferEvents) + Len(events) < MaxLen1155
  /\ singleTransferEvents' = Append(singleTransferEvents, e)
  /\ UNCHANGED <<chainVars, file, argvVars, pc, data, existingHolders, fromBlock,
                 contractDeploymentBlock, currentBlock, contractType, eventName,
                 i, events, queries, holders, idx, loopVars, exitCode, auxVars>>

\* the second pass of getERC1155Holders returns one more TransferBatch event
ReceiveBatch(e) ==
  /\ pc = "ledger"
  /\ UNCHANGED otherTools
  /\ standard = "ERC1155"
  /\ Len(singleTransferEvents) + Len(events) < MaxLen1155
  /\ events' = Append(events, e)
  /\ UNCHANGED <<chainVars, file, argvVars, pc, data, existingHolders, fromBlock,
                 contractDeploymentBlock, currentBlock, contractType, eventName,
                 i, singleTransferEvents, queries, holders, idx, loopVars, exitCode,
                 auxVars>>

\* the ledger of the contract's standard replays what it was handed
Replay ==
  /\ pc = "ledger"
  /\ UNCHANGED otherTools
  /\ holders' = CASE standard = "ERC20"   -> getERC20Holders(events)
                  [] standard = "ERC721"  -> getERC721Holders(events)
                  [] standard = "ERC1155" ->
                       getERC1155Holders(singleTransferEvents, events)
  /\ contractType' = standard
  /\ pc' = "replayed"
  /\ UNCHANGED <<chainVars, file, argvVars, data, existingHolders, fromBlock,
                 contractDeploymentBlock, currentBlock, eventName, i, events,
                 singleTransferEvents, queries, idx, loopVars, exitCode, auxVars>>

LedgerInit ==
  /\ standard \in {"ERC20", "ERC721", "ERC1155"}
  /\ supported = {standard}
  /\ deployBlock = 1
  /\ height = 1
  /\ chain = <<>>
  /\ file = NoFile
  /\ refreshData = FALSE
  /\ startingBlock = 0
  /\ pc = "ledger"
  /\ data = NoFile
  /\ existingHolders = <<>>
  /\ fromBlock = 0
  /\ contractDeploymentBlock = Undefined
  /\ currentBlock = Undefined
  /\ contractType = "none"
  /\ eventName = "none"
  /\ i = 0
  /\ events = <<>>
  /\ singleTransferEvents = <<>>
  /\ queries = <<>>
  /\ holders = <<>>
  /\ idx = 0
  /\ codeQueries = <<>>
  /\ totalTransactions = 0
  /\ uniqueHolders = {}
  /\ exitCode = NoExit
  /\ isValid = "undefined"
  /\ blockNumber = Undefined
  /\ probes = <<>>
  /\ error = "none"
  /\ outputCsv = FALSE
  /\ outputs = <<>>
  /\ PetsIdle
  /\ AirdropIdle
  /\ ShareIdle

LedgerNext ==
  \/ \E e \in (IF standard = "ERC20" THEN AnyERC20 ELSE AnyERC721) :
        ReceiveTransfer(e)
  \/ \E e \in AnySingle : ReceiveSingle(e)
  \/ \E e \in AnyBatch : ReceiveBatch(e)
  \/ Replay

LedgerSpec == LedgerInit /\ [][LedgerNext]_vars

-----------------------------------------------------------------------------
(* tools/tallySankoPets.js: generateReport() asks queryTokenURI for the      *)
(* metadata of every pet, from the cache or from the contract, and writes    *)
(* the cache back.  The cache maps token ids to metadata objects: a function *)
(* whose domain is the set of its keys.                                      *)

PremintCount == 300    \* generateReport: startingTokenId = noPremint ? 301 : 1
LastPet      == 4444   \* generateReport: tokenId <= 4444
MaxPets      == 2      \* token ids one run of generateReport asks for

takeSnapshotVars ==
  <<chainVars, file, argvVars, pc, data, existingHolders, fromBlock,
    contractDeploymentBlock, currentBlock, contractType, eventName, i, events,
    singleTransferEvents, queries, holders, idx, loopVars, exitCode, auxVars>>

\* the metadata object of a pet: its attributes, a list of traits
Pet(type, rarity) ==
  [t |-> "object",
   attributes |-> <<[trait_type |-> "Type", value |-> type],
                    [trait_type |-> "Rarity", value |-> rarity]>>]

\* what the contract answers for the tokenURI of a pet
Metadatas == {Pet("Egg", "Common"), Pet("Bun", "Common")}

\* cache[tokenId].attributes.find(attr => attr.trait_type === 'Type' &&
\* attr.value === 'Egg') is truthy
IsEgg(entry) ==
  \E k \in 1..Len(entry.attributes) :
     /\ entry.attributes[k].trait_type = "Type"
     /\ entry.attributes[k].value = "Egg"

startingTokenId(premintOff) == IF premintOff THEN PremintCount + 1 ELSE 1

\* the last token id generateReport asks for
LastTokenId(premintOff) ==
  IF startingTokenId(premintOff) + MaxPets - 1 < LastPet
  THEN startingTokenId(premintOff) + MaxPets - 1 ELSE LastPet

\* a queryTokenURI that never refreshes the eggs
UsesCacheKeepsEggs(c, all, eggs, tokenId) ==
  tokenId \in DOMAIN c /\ ~all

\* queryTokenURI(tokenId): the condition of its first if
UsesCache(c, all, eggs, tokenId) ==
  /\ tokenId \in DOMAIN c
  /\ ~all
  /\ ~(eggs /\ IsEgg(c[tokenId]))

\* cache[tokenId] = jsonObject
CachePut(c, tokenId, jsonObject) ==
  [k \in DOMAIN c \cup {tokenId} |-> IF k = tokenId THEN jsonObject ELSE c[k]]

\* generateReport calls queryTokenURI(tokenId) with cache c and flags all,
\* eggs: it returns the cached entry, or sends one eth_call
QueryTokenURI(c, all, eggs, tokenId) ==
  /\ petTokenId' = tokenId
  /\ IF UsesCache(c, all, eggs, tokenId)
     THEN /\ petPc' = "cached"
          /\ fetched' = IF petPc \in {"idle", "done"} THEN <<>> ELSE fetched
     ELSE /\ petPc' = "fetch"
          /\ fetched' = Append(IF petPc \in {"idle", "done"} THEN <<>> ELSE fetched,
                               tokenId)

\* node tools/tallySankoPets.js [--refreshall] [--refresheggs] [--no-premint]:
\* the cache file is read unless --refreshall is given, and generateReport
\* asks for its first token
PetsStart(all, eggs, premintOff) ==
  /\ petPc \in {"idle", "done"}
  /\ refreshAll' = all
  /\ refreshEggs' = eggs
  /\ noPremint' = premintOff
  /\ cache' = IF cacheFile.exists /\ ~all THEN cacheFile.entries ELSE <<>>
  /\ metadata' = NullMetadata
  /\ QueryTokenURI(cache', all, eggs, startingTokenId(premintOff))
  /\ UNCHANGED <<cacheFile, takeSnapshotVars, dropVars, shareVars>>

\* generateReport resumes with the metadata of petTokenId: it tallies it and
\* asks for the next token, or writes the cache file after the last one
NextPet(c) ==
  IF petTokenId + 1 <= LastTokenId(noPremint)
  THEN /\ QueryTokenURI(c, refreshAll, refreshEggs, petTokenId + 1)
       /\ UNCHANGED cacheFile
  ELSE /\ cacheFile' = [exists |-> TRUE, entries |-> c]
       /\ petPc' = "done"
       /\ UNCHANGED <<petTokenId, fetched>>

\* queryTokenURI has returned cache[tokenId]
CachedReturn ==
  /\ petPc = "cached"
  /\ metadata' = cache[petTokenId]
  /\ NextPet(cache)
  /\ UNCHANGED <<cache, refreshAll, refreshEggs, noPremint, takeSnapshotVars,
                 dropVars, shareVars>>

\* the answers to the eth_call of queryTokenURI: the metadata of the pet, an
\* RPC error, a token URI that is no base64 JSON, or a failed fetch
Responses ==
  {[ok |-> TRUE, jsonObject |-> m] : m \in Metadatas}
  \cup {[ok |-> FALSE, jsonObject |-> NullMetadata]}

\* the eth_call of queryTokenURI is answered: the metadata is cached and
\* returned, or null is returned
FetchReturn(response) ==
  /\ petPc = "fetch"
  /\ cache' = IF response.ok
              THEN CachePut(cache, petTokenId, response.jsonObject)
              ELSE cache
  /\ metadata' = IF response.ok THEN response.jsonObject ELSE NullMetadata
  /\ NextPet(cache')
  /\ UNCHANGED <<refreshAll, refreshEggs, noPremint, takeSnapshotVars, dropVars, shareVars>>

PetsInit ==
  /\ TakeSnapshotIdle
  /\ standard = "ERC20"
  /\ PetsIdle
  /\ AirdropIdle
  /\ ShareIdle

PetsNext ==
  \/ \E all \in BOOLEAN, eggs \in BOOLEAN, premintOff \in BOOLEAN :
        PetsStart(all, eggs, premintOff)
  \/ CachedReturn
  \/ \E response \in Responses : FetchReturn(response)

PetsSpec == PetsInit /\ [][PetsNext]_vars

-----------------------------------------------------------------------------
(* tools/cacheToCSV.js: the sender reads the recipients from a CSV file and  *)
(* airdrops to them in batches, one transaction per batch.  A recipient is   *)
(* the number of its row.                                                    *)

MinBatch     == 1      \* --batch: arg < 1 is rejected
MaxBatch     == 2000   \* --batch: arg > 2000 is rejected
DefaultBatch == 500    \* --batch: default
MaxRecipients == 4     \* rows of the CSV file

AirdropTypes == {"erc20", "erc721", "erc1155"}

\* --batch, within the limits of its coerce function
BatchOptions == {MinBatch, 2, 3, DefaultBatch, MaxBatch}

\* the rows the CSV file can hold
RecipientLists == {[k \in 1..n |-> k] : n \in 0..MaxRecipients}

\* Array.prototype.slice(from, to) for 0 <= from <= to
Slice(list, from, to) ==
  SubSeq(list, from + 1, IF to < Len(list) THEN to ELSE Len(list))

\* recipients.reduce((acc, recipient) => acc.add(...), BigInt(0)): the
\* callback calls a method that a BigInt does not have, so the reduce throws
\* a TypeError unless the list is empty
TotalAmountThrows(list) == list # <<>>

\* const batch = recipients.slice(i, i + batchSize)
BatchOf(list, index, size) == Slice(list, index, index + size)

\* one pass through the head of the for loop of airdropERC20/721/1155 over
\* `list` with batchSize = size and i = index: the transaction of the next batch is sent, or the loop and the
\* program end
AirdropLoop(list, size, index) ==
  /\ airdropI' = index
  /\ IF index < Len(list)
     THEN /\ txs' = Append(IF airdropPc \in {"idle", "done"} THEN <<>> ELSE txs,
                           BatchOf(list, index, size))
          /\ airdropPc' = "airdrop"
     ELSE /\ txs' = IF airdropPc \in {"idle", "done"} THEN <<>> ELSE txs
          /\ airdropPc' = "done"

\* node tools/cacheToCSV.js --to file --erc20|--erc721|--erc1155 [--batch b]:
\* the rows are read; for ERC20 the total is summed and the allowance is
\* requested; for the other types the first batch is sent.  An error thrown
\* on the way is caught at the end of the program.
AirdropStart(type, rows, size) ==
  /\ airdropPc \in {"idle", "done"}
  /\ airdropType' = type
  /\ recipients' = rows
  /\ airdropBatchSize' = size
  /\ IF type = "erc20"
     THEN IF TotalAmountThrows(rows)
          THEN /\ airdropPc' = "done"
               /\ airdropI' = 0
               /\ txs' = <<>>
          ELSE /\ airdropPc' = "approve"
               /\ airdropI' = 0
               /\ txs' = <<>>
     ELSE AirdropLoop(rows, size, 0)
  /\ UNCHANGED <<takeSnapshotVars, petVars, shareVars>>

\* setAllowance: tokenContract.approve answers or throws; the error is
\* caught in setAllowance and the airdrop starts
ApproveReturn(ok) ==
  /\ airdropPc = "approve"
  /\ IF ok
     THEN /\ airdropPc' = "approveWait"
          /\ UNCHANGED <<airdropI, txs>>
     ELSE AirdropLoop(recipients, airdropBatchSize, 0)
  /\ UNCHANGED <<recipients, airdropType, airdropBatchSize, takeSnapshotVars,
                 petVars, shareVars>>

\* setAllowance: tx.wait() answers or throws
ApproveWaitReturn(ok) ==
  /\ airdropPc = "approveWait"
  /\ AirdropLoop(recipients, airdropBatchSize, 0)
  /\ UNCHANGED <<recipients, airdropType, airdropBatchSize, takeSnapshotVars,
                 petVars, shareVars>>

\* the airdrop call of a batch answers or throws; the error is caught in the
\* loop, which goes on with the next batch
AirdropReturn(ok) ==
  /\ airdropPc = "airdrop"
  /\ IF ok
     THEN /\ airdropPc' = "airdropWait"
          /\ UNCHANGED <<airdropI, txs>>
     ELSE AirdropLoop(recipients, airdropBatchSize, airdropI + airdropBatchSize)
  /\ UNCHANGED <<recipients, airdropType, airdropBatchSize, takeSnapshotVars,
                 petVars, shareVars>>

\* tx.wait() of a batch answers or throws
AirdropWaitReturn(ok) ==
  /\ airdropPc = "airdropWait"
  /\ AirdropLoop(recipients, airdropBatchSize, airdropI + airdropBatchSize)
  /\ UNCHANGED <<recipients, airdropType, airdropBatchSize, takeSnapshotVars,
                 petVars, shareVars>>

AirdropInit ==
  /\ TakeSnapshotIdle
  /\ standard = "ERC20"
  /\ PetsIdle
  /\ AirdropIdle
  /\ ShareIdle

AirdropNext ==
  \/ \E type \in AirdropTypes, rows \in RecipientLists, size \in BatchOptions :
        AirdropStart(type, rows, size)
  \/ \E ok \in Answers : ApproveReturn(ok)
  \/ \E ok \in Answers : ApproveWaitReturn(ok)
  \/ \E ok \in Answers : AirdropReturn(ok)
  \/ \E ok \in Answers : AirdropWaitReturn(ok)

AirdropSpec == AirdropInit /\ [][AirdropNext]_vars

-----------------------------------------------------------------------------
(* tools/cacheToCSV.js, the distribution calculator: in weighted mode the   *)
(* merged weights are turned into balances by calculateWeightedShare, and   *)
(* adjustForTotal adds what is missing from the total to addresses drawn by *)
(* Math.random.  The weights are counted in eighths and the inputs are      *)
(* those for which every quotient is a whole number, so that the doubles of *)
(* the program are exact and toFixed(18) and parseFloat change nothing.     *)

MaxAddresses == 3      \* addresses in the merged weights
\* the default of --maximum, above every amount of the model
Infinity == 1000000

WeightLists == UNION {[1..n -> 1..3] : n \in 1..MaxAddresses}
Totals   == {12, 24}
Minimums == {0, 2, 6}
Maximums == {6, 8, Infinity}

\* reduce((sum, weight) => sum + weight, 0)
RECURSIVE SumOf(_)
SumOf(numbers) ==
  IF numbers = <<>> THEN 0 ELSE numbers[1] + SumOf(Tail(numbers))

\* total * weight / totalWeight is a whole number for every weight
ExactShares(weights, amount) ==
  \A k \in 1..Len(weights) : (amount * weights[k]) % SumOf(weights) = 0

\* const baseAmount = total * weight / totalWeight
baseAmount(weights, amount, weight) == (amount * weight) \div SumOf(weights)

\* const adjustedBalances = weights.map(...)
adjustedBalances(weights, amount, lowest, highest) ==
  [k \in 1..Len(weights) |->
     LET base == baseAmount(weights, amount, weights[k])
     IN IF base < lowest THEN lowest
        ELSE IF base > highest THEN highest
        ELSE base]

\* remainingTotal after the map: total less every minimum and maximum given
remainingTotal(weights, amount, lowest, highest) ==
  amount - SumOf([k \in 1..Len(weights) |->
                    LET base == baseAmount(weights, amount, weights[k])
                    IN IF base < lowest THEN lowest
                       ELSE IF base > highest THEN highest
                       ELSE 0])

\* weights.filter((_, index) => adjustedBalances[index] !== minimum && ...)
remainingWeights(weights, amount, lowest, highest) ==
  LET adjusted == adjustedBalances(weights, amount, lowest, highest)
      kept == SelectSeq([k \in 1..Len(weights) |-> k],
                        LAMBDA k : adjusted[k] # lowest /\ adjusted[k] # highest)
  IN [j \in 1..Len(kept) |-> weights[kept[j]]]

\* const finalBalances = adjustedBalances.map(...): the condition
\* balance >= minimum || balance <= maximum
finalBalances(weights, amount, lowest, highest) ==
  LET adjusted == adjustedBalances(weights, amount, lowest, highest)
      left     == remainingTotal(weights, amount, lowest, highest)
      leftWeight == SumOf(remainingWeights(weights, amount, lowest, highest))
  IN [k \in 1..Len(weights) |->
        IF adjusted[k] >= lowest \/ adjusted[k] <= highest
        THEN adjusted[k]
        ELSE (left * weights[k]) \div leftWeight]

\* the balances calculateWeightedShare returns, in address order
calculateWeightedShare(weights, amount, lowest, highest) ==
  finalBalances(weights, amount, lowest, highest)

\* let discrepancy = total - totalDistributed
discrepancy == total - SumOf(shareResult)

\* the weights are merged; calculateWeightedShare returns and adjustForTotal
\* is entered
ShareStart(weights, amount, lowest, highest) ==
  /\ sharePc \in {"idle", "saved"}
  /\ mergedWeights' = weights
  /\ total' = amount
  /\ minimum' = lowest
  /\ maximum' = highest
  /\ shareResult' = calculateWeightedShare(weights, amount, lowest, highest)
  /\ sharePc' = "adjustForTotal"
  /\ UNCHANGED <<takeSnapshotVars, petVars, dropVars>>

\* one iteration of the while loop of adjustForTotal: Math.random draws
\* randomIndex
AdjustForTotalDraw(randomIndex) ==
  /\ sharePc = "adjustForTotal"
  /\ discrepancy # 0
  /\ randomIndex \in 1..Len(shareResult)
  /\ shareResult' = [shareResult EXCEPT ![randomIndex] = @ + discrepancy]
  /\ UNCHANGED <<mergedWeights, total, minimum, maximum, sharePc,
                 takeSnapshotVars, petVars, dropVars>>

\* the loop of adjustForTotal ends; the result is saved to the CSV file
AdjustForTotalReturn ==
  /\ sharePc = "adjustForTotal"
  /\ discrepancy = 0
  /\ sharePc' = "saved"
  /\ UNCHANGED <<mergedWeights, total, minimum, maximum, shareResult,
                 takeSnapshotVars, petVars, dropVars>>

ShareInit ==
  /\ TakeSnapshotIdle
  /\ standard = "ERC20"
  /\ PetsIdle
  /\ AirdropIdle
  /\ ShareIdle

ShareNext ==
  \/ \E weights \in WeightLists, amount \in Totals, lowest \in Minimums,
        highest \in Maximums :
        /\ lowest <= highest
        /\ ExactShares(weights, amount)
        /\ ShareStart(weights, amount, lowest, highest)
  \/ \E randomIndex \in 1..MaxAddresses : AdjustForTotalDraw(randomIndex)
  \/ AdjustForTotalReturn

ShareSpec == ShareInit /\ [][ShareNext]_vars

-----------------------------------------------------------------------------
(* Properties of the runs of main() *)

\* a run has written its snapshot and exited; the variables of main still
\* hold what the run read (data) and computed (holders)
Written == pc = "exited" /\ currentBlock # Undefined

Entries(list) == {list[k] : k \in 1..Len(list)}

\* the holder list one replay of the whole history, from the deployment block
\* of snapshot f to its last checked block, persists
FullReplay(f) ==
  PersistedHolders(standard, <<>>,
                   LedgerOf(standard,
                            InRange(chain, f.deploymentBlock, f.lastCheckedBlock)),
                   Contracts)

\* every address has in snapshot f the balance the whole history gives it
Agrees(f) == Entries(f.holders) = Entries(FullReplay(f))

\* C1: accumulation across runs.  After a first run followed by incremental
\* runs (refresh disabled) the balance persisted for each address equals the
\* balance a single replay of the whole history from the deployment block to
\* the last checked block gives.  Stated by induction over the runs: a run
\* without --refresh that starts from no snapshot, or from a snapshot that
\* agrees with the whole history up to its last checked block, writes a
\* snapshot that agrees with the whole history up to the new last checked block.
C1_AccumulationAcrossRuns ==
  (Written /\ ~refreshData /\ (data.exists => Agrees(data))) => Agrees(file)

\* the run resumes from a snapshot whose deployment block was verified
Resumed ==
  /\ data.exists
  /\ ~refreshData
  /\ contractDeploymentBlock = data.deploymentBlock

\* C2: incremental resume.  When a cached snapshot with a verified
\* deployment block and lastCheckedBlock = L exists and refresh is disabled,
\* every log-window query of the run covers only blocks strictly greater
\* than L.
C2_IncrementalResume ==
  Resumed =>
    \A k \in 1..Len(queries) : queries[k].fromBlock > data.lastCheckedBlock

\* a persisted balance that denotes zero: the Number 0, or a decimal string
\* of zeros
DenotesZero(value) ==
  IF value.t = "string"
  THEN \A k \in 1..Len(value.s) : value.s[k] \in {"0", "."}
  ELSE value.hi = 0 /\ value.lo = 0

\* C3: zero-balance and contract-classified addresses never appear in the
\* persisted holder list, after any sequence of successful runs; and every
\* address of the fresh computation with a nonzero balance that is not a
\* contract is in the list the run persists.
C3_NoZeroNoContract ==
  /\ file.exists =>
       \A k \in 1..Len(file.holders) :
          /\ ~DenotesZero(file.holders[k][2])
          /\ ~isContract(file.holders[k][1])
  /\ Written =>
       \A k \in 1..Len(holders) :
          (StrictNotEqual0n(holders[k][2]) /\ ~isContract(holders[k][1]))
            => Has(file.holders, holders[k][1])

\* a run has written a snapshot from a fresh computation that holds a
\* contract with a nonzero balance and an address with balance zero that the
\* prior snapshot lists
C3_Witness ==
  /\ Written
  /\ \E k \in 1..Len(holders) :
        StrictNotEqual0n(holders[k][2]) /\ isContract(holders[k][1])
  /\ \E k \in 1..Len(holders) :
        ~StrictNotEqual0n(holders[k][2]) /\ Has(data.holders, holders[k][1])

\* C4: merge rule for the addresses of the fresh computation.  If the fresh
\* balance of an address is nonzero and the address is not a contract, its
\* persisted entry is exactly the formatted fresh balance, whatever the prior
\* entry was; otherwise the address has no entry in the persisted list.
C4_MergeRule ==
  Written =>
    \A k \in 1..Len(holders) :
       LET a == holders[k][1]
           b == holders[k][2]
       IN IF StrictNotEqual0n(b) /\ ~isContract(a)
          THEN Has(file.holders, a)
               /\ Get(file.holders, a) = FormatBalance(contractType, b)
          ELSE ~Has(file.holders, a)

\* a run has overwritten the prior entry of an address with another balance
C4_Witness ==
  /\ Written
  /\ \E k \in 1..Len(holders) :
        /\ Has(data.holders, holders[k][1])
        /\ Has(file.holders, holders[k][1])
        /\ Get(file.holders, holders[k][1]) # Get(data.holders, holders[k][1])

\* C5: carry-forward frame.  Every address of the prior snapshot's holder
\* list that does not occur in the fresh computation is in the new persisted
\* list with exactly the balance value it had in the prior snapshot.
C5_CarryForward ==
  Written =>
    \A k \in 1..Len(data.holders) :
       ~Has(holders, data.holders[k][1])
         => /\ Has(file.holders, data.holders[k][1])
            /\ Get(file.holders, data.holders[k][1]) = data.holders[k][2]

\* a run has carried an address forward while it wrote another one
C5_Witness ==
  /\ Written
  /\ \E k \in 1..Len(data.holders) : ~Has(holders, data.holders[k][1])
  /\ \E k \in 1..Len(holders) : Has(file.holders, holders[k][1])

\* C6: merge idempotence.  Merging the fresh computation into the prior
\* snapshot, persisting, reloading the result and merging the same fresh
\* computation again gives the same persisted holder list (addresses,
\* balances and order) as merging once.
C6_MergeIdempotent ==
  Written =>
    /\ LoadParses(file.holders)
    /\ PersistedHolders(contractType, file.holders, holders, Contracts)
         = file.holders

\* the exact number a persisted balance denotes, in base units
ExactValue(value) ==
  IF value.t = "string" THEN BigIntOf(ReloadString(value)) ELSE value

ExactLess(a, b) ==
  PairLess(ExactValue(a).hi, ExactValue(a).lo, ExactValue(b).hi, ExactValue(b).lo)

\* C7 as stated: every persisted holder list is descending by the exact
\* numeric value of the balance, and entries of equal balance keep the
\* relative order they had in the merged map before sorting.
C7_SortedByExactValue ==
  (file.exists /\ LoadParses(file.holders)) =>
    /\ \A k \in 1..(Len(file.holders) - 1) :
          ~ExactLess(file.holders[k][2], file.holders[k + 1][2])
    /\ Written =>
         \A j \in 1..Len(file.holders) : \A k \in (j + 1)..Len(file.holders) :
            ExactValue(file.holders[j][2]) = ExactValue(file.holders[k][2])
              => IndexOf(existingHolders, file.holders[j][1])
                   < IndexOf(existingHolders, file.holders[k][1])

\* C7, amended: every persisted holder list is descending by the double that
\* parseFloat gives for the balance, and entries whose doubles are equal keep
\* the relative order they had in the merged map before sorting.
C7_SortedByParseFloat ==
  /\ file.exists =>
       \A k \in 1..(Len(file.holders) - 1) :
          LET fa == parseFloat(file.holders[k][2])
              fb == parseFloat(file.holders[k + 1][2])
          IN /\ fa.t = "number"
             /\ fb.t = "number"
             /\ ~PairLess(fa.hi, fa.lo, fb.hi, fb.lo)
  /\ Written =>
       \A j \in 1..Len(file.holders) : \A k \in (j + 1)..Len(file.holders) :
          parseFloat(file.holders[j][2]) = parseFloat(file.holders[k][2])
            => IndexOf(existingHolders, file.holders[j][1])
                 < IndexOf(existingHolders, file.holders[k][1])

\* the sort of a run has moved an entry of the merged map
C7_Witness ==
  /\ Written
  /\ Len(file.holders) >= 2
  /\ file.holders # existingHolders

\* an optional sign, an integer part, a point and exactly 18 fraction digits
FixedPoint18(str) ==
  LET body == IF str # <<>> /\ str[1] = "-" THEN Tail(str) ELSE str
      n    == Len(body) - Decimals - 1
  IN /\ n >= 1
     /\ body[n + 1] = "."
     /\ \A k \in 1..Len(body) : k # n + 1 => IsDigit(body[k])

\* C21: fungible balances are 18-decimal fixed-point strings.  Every balance
\* b that a run has computed for an address and persisted is stored as a
\* string of that form, and the string reloads (point removed, parsed as an
\* integer) to b.
C21_FixedPointStrings ==
  (Written /\ contractType = "ERC20") =>
    \A k \in 1..Len(holders) :
       Has(file.holders, holders[k][1]) =>
         LET stored == Get(file.holders, holders[k][1])
         IN /\ stored.t = "string"
            /\ FixedPoint18(stored.s)
            /\ BigIntParses(ReloadString(stored))
            /\ BigIntOf(ReloadString(stored)) = holders[k][2]

\* the run rebuilds from a snapshot whose deployment block was verified
Refreshed ==
  /\ data.exists
  /\ refreshData
  /\ contractDeploymentBlock = data.deploymentBlock

\* the log windows queried so far for event `name` start at block lo, follow
\* each other without a gap, and end at block hi
WindowsCover(name, lo, hi) ==
  LET windows == SelectSeq(queries, LAMBDA q : q.event = name)
  IN /\ windows # <<>>
     /\ windows[1].fromBlock = lo
     /\ windows[Len(windows)].toBlock = hi
     /\ \A k \in 1..(Len(windows) - 1) :
           windows[k + 1].fromBlock = windows[k].toBlock + 1

\* C23: refresh rebuilds from the creation block.  A run with --refresh from
\* a snapshot with a verified deployment block fetches the logs of
\* [deploymentBlock, currentBlock], and the holder list it persists is the
\* list a first run without a snapshot persists for the same chain, whatever
\* holders the old snapshot stored.
C23_RefreshRebuilds ==
  (Written /\ Refreshed) =>
    /\ \A k \in 1..Len(queries) :
          WindowsCover(queries[k].event, data.deploymentBlock, currentBlock)
    /\ file.holders = FullReplay(file)

-----------------------------------------------------------------------------
(* Properties of the failure paths of main() *)

\* the failures the catch of main or the top level of the process reports
\* for the current-block read, the classification, a log window and a
\* per-holder contract check
StepFailures == {"getCurrentBlock", "detectContractType", "queryFilter", "isContract"}

FetchFailures == StepFailures \cup {"getTokenInfo", "getBlockNumber"}

\* C12: exit behaviour.  A run that has ended with exit status zero has
\* written a snapshot, and a run that has ended because a fetch (token
\* name/symbol read, block read, log window, contract check) or the
\* classification failed has ended with a nonzero status without a write.
C12_ExitBehaviour ==
  pc = "exited" =>
    /\ exitCode = 0 =>
         (Written /\ file.exists /\ file.lastCheckedBlock = currentBlock)
    /\ error \in FetchFailures => (exitCode # 0 /\ ~Written)

\* C13: a deployment block that is not found is fatal without a cached one.
\* When no prior snapshot exists and getDeploymentBlock has returned null,
\* the run issues no log-window query and writes no snapshot; and a run goes
\* on after a null result only when a prior snapshot has supplied a verified
\* deployment block.
C13_NotFoundIsFatal ==
  contractDeploymentBlock = Null =>
    \/ queries = <<>> /\ ~Written
    \/ data.exists /\ isValid = "true"

\* C14: classification failure is fatal.  When the last probe is awaited
\* after the two interface probes have answered false, and it answers false
\* too (it must, for a contract without the fungible read), the run ends in
\* that step with a nonzero status, has issued no log-window query, and leaves
\* the snapshot file as it was; and no query is ever issued by a run that has
\* not classified the contract.
C14_ClassificationFatal ==
  [][/\ (pc = "checkContractMethod"
          /\ ("ERC20" \notin supported \/ contractType' # "ERC20"))
          => /\ pc' = "exited"
             /\ exitCode' # 0
             /\ error' = "detectContractType"
             /\ queries = <<>>
             /\ queries' = <<>>
             /\ file' = file
     /\ queries' # <<>> => contractType' \in supported
    ]_vars

\* a run has ended at the classification while a snapshot was on disk
C14_Witness ==
  /\ pc = "exited"
  /\ error = "detectContractType"
  /\ exitCode = 1
  /\ file.exists

\* the first window of every getPastEvents pass of the run starts at `block`
PassesStartAt(block) ==
  \A k \in 1..Len(queries) :
     (k = 1 \/ queries[k].event # queries[k - 1].event)
       => queries[k].fromBlock = block

C18_FirstMatch ==
  LET inRange == startingBlock <= deployBlock /\ deployBlock <= height
  IN /\ pc = "checkBlockForDeployment"
          => /\ startingBlock <= blockNumber
             /\ blockNumber <= height
             /\ inRange => blockNumber <= deployBlock
     /\ (contractDeploymentBlock # Undefined /\ isValid # "true")
          => contractDeploymentBlock = (IF inRange THEN deployBlock ELSE Null)

\* C22: snapshot bookkeeping is always present.  Every persisted snapshot
\* has integer lastCheckedBlock and deploymentBlock fields; the snapshot a
\* run has just written holds the current block the run read and the block
\* that deploys the contract.
C22_BookkeepingPresent ==
  /\ file.exists =>
       /\ file.lastCheckedBlock \in Nat
       /\ file.deploymentBlock \in Nat
  /\ Written =>
       /\ file.lastCheckedBlock = currentBlock
       /\ file.deploymentBlock = deployBlock

\* the stage of main() a call belongs to
Stage(call) ==
  CASE call = "getTokenInfo" -> 1
    [] call \in {"verifyDeploymentBlock", "getDeploymentBlock",
                 "checkBlockForDeployment"} -> 2
    [] call = "getCurrentBlock" -> 3
    [] call \in ProbeCalls -> 4
    [] call = "queryFilter" -> 5
    [] call = "isContract" -> 6
    [] call = "exited" -> 7
    [] OTHER -> 0

\* every b of the sequence comes after an a
Before(seq, a, b) ==
  \A k \in 1..Len(seq) : seq[k] = b => \E j \in 1..(k - 1) : seq[j] = a

\* the stages of a run follow each other; the deployment block is resolved
\* or verified before any log window is queried; the snapshot is written in
\* the step that ends the merge loop; the JSON snapshot comes before the CSV
\* file and before the counts
OrderOfTheRest ==
  /\ pc \notin {"idle", "exited"} => Stage(pc') >= Stage(pc)
  /\ queries' # <<>> =>
       /\ contractDeploymentBlock' # Undefined
       /\ data'.exists => isValid' = "true" \/ isValid' = "false"
  /\ file' # file =>
       /\ pc' = "exited"
       /\ idx' = Len(holders') + 1
       /\ outputs' # <<>>
  /\ outputs' # <<>> =>
       /\ outputs'[1] = "json"
       /\ file'.lastCheckedBlock = currentBlock'
       /\ Before(outputs', "json", "csv")
       /\ Before(outputs', "json", "deltas")
       /\ (\E k \in 1..Len(outputs') : outputs'[k] = "csv") <=> outputCsv'

C27_FetchFailuresPropagate ==
  /\ isValid = "false" => data.deploymentBlock # deployBlock
  /\ (pc = "checkBlockForDeployment" /\ startingBlock <= deployBlock)
       => blockNumber <= deployBlock

-----------------------------------------------------------------------------
(* Properties of detectContractType *)

\* the order of the probes in the claim: single-owner interface, multi-token
\* interface, fungible read
ProbeOrder == <<"ERC721", "ERC1155", "ERC20">>

\* the probes answered so far are the first ones of the order, and only the
\* last of them may have succeeded
InProbeOrder(log) ==
  /\ Len(log) <= 3
  /\ \A k \in 1..Len(log) :
        /\ log[k].probe = ProbeOrder[k]
        /\ log[k].answer = (log[k].probe \in supported /\ ~log[k].threw)
        /\ log[k].answer => k = Len(log)

\* C19: classification probe order.  The probes are issued in the order
\* ERC721 interface, ERC1155 interface, fungible read, and none after one has
\* succeeded; detectContractType returns the type of the probe that
\* succeeded, whatever the later probes would answer, and the unknown-type
\* result only after all three have failed.
C19_ProbeOrder ==
  [][/\ InProbeOrder(probes')
     /\ pc' \in ProbeCalls
          => /\ contractType' = "none"
             /\ ProbeOf(pc') = ProbeOrder[Len(probes') + 1]
             /\ \A k \in 1..Len(probes') : ~probes'[k].answer
     /\ (probes' # <<>> /\ probes'[Len(probes')].answer)
          => contractType' = probes'[Len(probes')].probe
     /\ (contractType' # "none" /\ pc' # "replayed")
          => /\ probes' # <<>>
             /\ probes'[Len(probes')].answer
             /\ contractType' = probes'[Len(probes')].probe
     /\ (pc \in ProbeCalls /\ pc' = "exited" /\ currentBlock' = Undefined)
          => /\ pc = "checkContractMethod"
             /\ error' = "detectContractType"
             /\ Len(probes) = 2
             /\ \A k \in 1..Len(probes) : ~probes[k].answer
    ]_vars

\* a contract that answers all three probes has been classified as ERC721 by
\* the first probe alone
C19_Witness ==
  /\ supported = Interfaces
  /\ contractType = "ERC721"
  /\ Len(probes) = 1
  /\ pc = "exited"
  /\ exitCode = 0

\* C20: probe failures are collapsed to unsupported.  A probe that throws
\* is recorded as answering false; after an interface probe, whatever it
\* answered, the run has not ended and, unless the probe succeeded, the next
\* probe is awaited; and a run that ends at the fungible read ends with the
\* unknown-type error of main, not with the error of the call.
C20_FailuresCollapse ==
  [][/\ \A k \in 1..Len(probes') : probes'[k].threw => ~probes'[k].answer
     /\ pc \in {"supportsInterface721", "supportsInterface1155"}
          => /\ pc' # "exited" \/ currentBlock' # Undefined
             /\ contractType' = "none" => pc' = ProbeAfter(pc)
             /\ Len(probes') = Len(probes) + 1
     /\ (pc = "checkContractMethod" /\ pc' = "exited" /\ currentBlock' = Undefined)
          => (error' = "detectContractType" /\ exitCode' = 1)
    ]_vars

\* the ERC721 probe of a contract that supports the interface has thrown,
\* and the contract has been classified by a later probe
C20_Witness ==
  /\ probes # <<>>
  /\ probes[1].threw
  /\ "ERC721" \in supported
  /\ contractType \in {"ERC1155", "ERC20"}
  /\ probes[Len(probes)].answer

-----------------------------------------------------------------------------
(* Properties of getPastEvents *)

RECURSIVE WindowsOf(_, _)
\* the windows of the getPastEvents pass for `name`, in the order of issue
WindowsOf(log, name) ==
  IF log = <<>> THEN <<>>
  ELSE (IF log[1].event = name THEN <<log[1]>> ELSE <<>>)
       \o WindowsOf(Tail(log), name)

RECURSIVE WindowResults(_, _)
\* what the node answers to the windows, one after the other
WindowResults(windows, name) ==
  IF windows = <<>> THEN <<>>
  ELSE Named(InRange(chain, windows[1].fromBlock, windows[1].toBlock), name)
       \o WindowResults(Tail(windows), name)

\* windows of at most 1000 blocks each, ascending, disjoint and contiguous,
\* that start at lo
AscendingFrom(windows, lo) ==
  /\ windows # <<>> => windows[1].fromBlock = lo
  /\ \A k \in 1..Len(windows) :
        /\ windows[k].fromBlock <= windows[k].toBlock
        /\ windows[k].toBlock - windows[k].fromBlock + 1 <= 1000
        /\ k < Len(windows) => windows[k + 1].fromBlock = windows[k].toBlock + 1

\* the passes of the ledger that has returned, and what each pass returned
PassesDone ==
  IF currentBlock = Undefined \/ pc \notin {"isContract", "exited"} THEN {}
  ELSE IF contractType = "ERC1155"
  THEN {[name |-> "TransferSingle", result |-> singleTransferEvents],
        [name |-> "TransferBatch", result |-> events]}
  ELSE {[name |-> "Transfer", result |-> events]}

\* C17: the windowed fetch covers the range exactly.  For a block number
\* fromBlock <= toBlock the windows of a getPastEvents pass are at most 1000
\* blocks each, disjoint, contiguous and issued in ascending order from
\* fromBlock; when the pass has returned they end at toBlock, and the pass
\* has returned the concatenation of the window results in that order, which
\* is the list of the events of the range.  For fromBlock > toBlock the pass
\* issues no query and returns the empty list.
C17_WindowsCoverRange ==
  fromBlock # Null =>
    /\ \A name \in {"Transfer", "TransferSingle", "TransferBatch"} :
          AscendingFrom(WindowsOf(queries, name), fromBlock)
    /\ \A pass \in PassesDone :
          LET windows == WindowsOf(queries, pass.name)
          IN IF fromBlock <= currentBlock
             THEN /\ windows # <<>>
                  /\ windows[Len(windows)].toBlock = currentBlock
                  /\ pass.result = WindowResults(windows, pass.name)
                  /\ pass.result
                       = Named(InRange(chain, fromBlock, currentBlock), pass.name)
             ELSE windows = <<>> /\ pass.result = <<>>

\* a pass of three windows has returned two events of two different windows
C17_Witness ==
  /\ \E pass \in PassesDone :
        /\ Len(WindowsOf(queries, pass.name)) >= 3
        /\ pass.result # <<>>
  /\ Len(chain) = 2
  /\ chain[1].blockNumber + 1000 <= chain[2].blockNumber
  /\ fromBlock <= chain[1].blockNumber

-----------------------------------------------------------------------------
(* Properties of tallySankoPets.js *)

\* the number of eth_calls sent for a token id in this run
Fetches(log, tokenId) == Cardinality({k \in 1..Len(log) : log[k] = tokenId})

\* C25: pet metadata cache use.  queryTokenURI answers a token id from the
\* cache without a network call exactly when the id is cached, --refreshall
\* is not set, and not (--refresheggs is set and the cached entry has Type =
\* Egg); otherwise it sends one network call, and on success the cache entry
\* of the id becomes the fetched metadata.
C25_CacheUse ==
  [][/\ petPc' \in {"cached", "fetch"} =>
          /\ petPc' = "cached" <=>
               /\ petTokenId' \in DOMAIN cache'
               /\ ~refreshAll'
               /\ ~(refreshEggs' /\ IsEgg(cache'[petTokenId']))
          /\ Fetches(fetched', petTokenId')
               = IF petPc' = "cached" THEN 0 ELSE 1
     /\ petPc = "cached" =>
          /\ metadata' = cache[petTokenId]
          /\ cache' = cache
          /\ Fetches(fetched, petTokenId) = 0
     /\ (petPc = "fetch" /\ metadata' # NullMetadata) =>
          /\ petTokenId \in DOMAIN cache'
          /\ cache'[petTokenId] = metadata'
    ]_vars

\* with --refresheggs a cached egg is asked for again, and the answer, a
\* pet that has hatched, has replaced the cache entry
C25_Witness ==
  /\ refreshEggs
  /\ ~refreshAll
  /\ petPc = "done"
  /\ \E tokenId \in DOMAIN cache :
        /\ Fetches(fetched, tokenId) = 1
        /\ ~IsEgg(cache[tokenId])
        /\ cacheFile.entries = cache
  /\ Len(fetched) < MaxPets

-----------------------------------------------------------------------------
(* Properties of cacheToCSV.js *)

RECURSIVE Flatten(_)
Flatten(batches) ==
  IF batches = <<>> THEN <<>> ELSE batches[1] \o Flatten(Tail(batches))

\* the batches sent so far hold the first recipients of the list, in list
\* order, each recipient once, and each batch at most `size` of them
BatchesInOrder(batches, list, size) ==
  /\ \A k \in 1..Len(batches) : Len(batches[k]) \in 1..size
  /\ Len(Flatten(batches)) <= Len(list)
  /\ Flatten(batches) = SubSeq(list, 1, Len(Flatten(batches)))

\* C26: airdrop batching.  For every recipient list and batch size in
\* 1..2000 the batches are sent one after another in list order, each holds
\* at most `batch size` consecutive recipients, and when the sender is done
\* every recipient of the list is in exactly one batch.
C26_AirdropBatching ==
  /\ BatchesInOrder(txs, recipients, airdropBatchSize)
  /\ airdropPc = "done" => Flatten(txs) = recipients

\* the same for the senders of ERC721 and ERC1155 tokens only
C26_NonFungibleBatching ==
  airdropType \in {"erc721", "erc1155"} =>
    /\ BatchesInOrder(txs, recipients, airdropBatchSize)
    /\ airdropPc = "done" => Flatten(txs) = recipients

-----------------------------------------------------------------------------
(* Properties of the ledger functions *)

Replayed(std) == pc = "replayed" /\ standard = std

\* two balance maps give every address the same balance
SameMap(m1, m2) ==
  /\ Keys(m1) = Keys(m2)
  /\ \A a \in Keys(m1) : Get(m1, a) = Get(m2, a)

Bijections(n) ==
  {p \in [1..n -> 1..n] : \A j \in 1..n : \A k \in 1..n : p[j] = p[k] => j = k}

Reordered(list, p) == [k \in 1..Len(list) |-> list[p[k]]]

\* C8: fungible reconstruction is order-independent.  For any two event
\* sequences that are permutations of each other, getERC20Holders yields the
\* same balance for every address.
C8_OrderIndependent ==
  Replayed("ERC20") =>
    \A p \in Bijections(Len(events)) :
       SameMap(getERC20Holders(Reordered(events, p)), holders)

\* the ledger has replayed a list in which an address sends what a later
\* event gives it
C8_Witness ==
  /\ Replayed("ERC20")
  /\ \E j \in 1..Len(events) : \E k \in (j + 1)..Len(events) :
        /\ events[j].args.from # ZeroAddress
        /\ events[j].args.from = events[k].args.to
        /\ events[j].args.from # events[j].args.to

\* holderCounts[address], 0 for an address that is not a key
CountOf(holderCounts, address) ==
  IF Has(holderCounts, address) THEN Get(holderCounts, address).lo ELSE 0

\* C9: single-owner replay.  After getERC721Holders replays any ordered
\* event sequence, the owner of each token id is the recipient of the last
\* event for that id (no owner when that recipient is the zero address), and
\* the exported count of every address is the number of ids it finally owns.
C9_SingleOwnerReplay ==
  Replayed("ERC721") =>
    /\ \A n \in TokenIds :
          IF OwnerOn(events, n) = ZeroAddress
          THEN ~Has(ERC721Owners(events), n)
          ELSE /\ Has(ERC721Owners(events), n)
               /\ Get(ERC721Owners(events), n) = OwnerOn(events, n)
    /\ \A a \in LedgerAddresses \ {ZeroAddress} :
          CountOf(holders, a)
            = Cardinality({n \in Keys(ERC721Owners(events)) :
                             Get(ERC721Owners(events), n) = a})

\* the TransferSingle events (from, to, ids[k], values[k]) of a batch
Unrolled(e) ==
  [k \in 1..Len(e.args.ids) |->
     Ev("TransferSingle", e.blockNumber,
        [from |-> e.args.from, to |-> e.args.to, id |-> e.args.ids[k],
         value |-> e.args.values[k]])]

Without(list, k) == SubSeq(list, 1, k - 1) \o SubSeq(list, k + 1, Len(list))

\* C10: multi-token batch equivalence.  Replaying one TransferBatch(from,
\* to, ids, values) with equal-length arrays in getERC1155Holders yields the
\* same per-address balances as replaying the TransferSingle events (from,
\* to, ids[k], values[k]) in its place, whatever other events are in the range.
C10_BatchEquivalence ==
  Replayed("ERC1155") =>
    \A k \in 1..Len(events) :
       SameMap(getERC1155Holders(singleTransferEvents \o Unrolled(events[k]),
                                 Without(events, k)),
               holders)

\* the ledger has replayed a batch of two ids between two addresses next to
\* another event
C10_Witness ==
  /\ Replayed("ERC1155")
  /\ Len(singleTransferEvents) + Len(events) >= 2
  /\ \E k \in 1..Len(events) :
        /\ Len(events[k].args.ids) = 2
        /\ events[k].args.from # ZeroAddress
        /\ events[k].args.to # ZeroAddress
        /\ events[k].args.from # events[k].args.to


-----------------------------------------------------------------------------
(* Properties of the zero address in the three ledgers *)

Prefix(list, k) == SubSeq(list, 1, k)

\* the entry of a key in a map: <<value>>, or <<>> when the key is absent
Entry(obj, key) == IF Has(obj, key) THEN <<Get(obj, key)>> ELSE <<>>

\* the balance of (address, id) in a per-address-per-id map, 0n when absent
Balance1155(balances, address, id) ==
  IF Has(balances, address) /\ Has(Get(balances, address), id)
  THEN Get(Get(balances, address), id)
  ELSE Zero0n

\* the total value a TransferBatch moves of one id
RECURSIVE MovedOf(_, _, _)
MovedOf(ids, values, id) ==
  IF ids = <<>> THEN Zero0n
  ELSE BigAdd(IF ids[1] = id THEN values[1] ELSE Zero0n,
              MovedOf(Tail(ids), Tail(values), id))

\* what one event of a fungible ledger does to the map `before`
SentinelStep20(before, after, e) ==
  /\ e.from = ZeroAddress =>
       /\ \A a \in LedgerAddresses \ {e.to} : Entry(after, a) = Entry(before, a)
       /\ e.to # ZeroAddress =>
            Entry(after, e.to) = <<BigAdd(GetOr0n(before, e.to), e.value)>>
  /\ e.to = ZeroAddress =>
       /\ \A a \in LedgerAddresses \ {e.from} : Entry(after, a) = Entry(before, a)
       /\ e.from # ZeroAddress =>
            Entry(after, e.from) = <<BigSub(GetOr0n(before, e.from), e.value)>>
  /\ ZeroAddress \notin Keys(after)

\* what one event of the single-owner ledger does to the owner map `before`
SentinelStep721(before, after, e) ==
  /\ e.from = ZeroAddress =>
       /\ \A n \in TokenIds \ {e.tokenId} : Entry(after, n) = Entry(before, n)
       /\ e.to # ZeroAddress => Entry(after, e.tokenId) = <<e.to>>
       /\ e.to = ZeroAddress => Entry(after, e.tokenId) = Entry(before, e.tokenId)
  /\ e.to = ZeroAddress =>
       /\ \A n \in TokenIds \ {e.tokenId} : Entry(after, n) = Entry(before, n)
       /\ e.from # ZeroAddress => Entry(after, e.tokenId) = <<>>
  /\ \A n \in TokenIds : Entry(after, n) # <<ZeroAddress>>
  /\ Keys(after) \subseteq TokenIds

\* what one event of the multi-token ledger, moving moved[n] of every id n,
\* does to the per-address-per-id map `before`
SentinelStep1155(before, after, from, to, moved) ==
  /\ from = ZeroAddress =>
       /\ \A a \in LedgerAddresses \ {to} : Entry(after, a) = Entry(before, a)
       /\ to # ZeroAddress =>
            \A n \in TokenIds :
               Balance1155(after, to, n)
                 = BigAdd(Balance1155(before, to, n), moved[n])
  /\ to = ZeroAddress =>
       /\ \A a \in LedgerAddresses \ {from} : Entry(after, a) = Entry(before, a)
       /\ from # ZeroAddress =>
            \A n \in TokenIds :
               Balance1155(after, from, n)
                 = BigSub(Balance1155(before, from, n), moved[n])
  /\ ZeroAddress \notin Keys(after)

-----------------------------------------------------------------------------
(* Properties of the sums of the fungible and multi-token ledgers *)

\* the sum of the values of a map
RECURSIVE TotalOf(_)
TotalOf(obj) ==
  IF obj = <<>> THEN Zero0n ELSE BigAdd(obj[1][2], TotalOf(Tail(obj)))

\* the total a TransferBatch moves, over all ids
RECURSIVE MovedAll(_)
MovedAll(values) ==
  IF values = <<>> THEN Zero0n ELSE BigAdd(values[1], MovedAll(Tail(values)))

\* the value an event moves
ValueOf(event) ==
  IF event.event = "TransferBatch" THEN MovedAll(event.args.values)
  ELSE event.args.value

\* the total value of the events of a list whose sender is the zero address
RECURSIVE Minted(_)
Minted(list) ==
  IF list = <<>> THEN Zero0n
  ELSE BigAdd(IF list[1].args.from = ZeroAddress THEN ValueOf(list[1]) ELSE Zero0n,
              Minted(Tail(list)))

\* the total value of the events of a list whose recipient is the zero address
RECURSIVE Burned(_)
Burned(list) ==
  IF list = <<>> THEN Zero0n
  ELSE BigAdd(IF list[1].args.to = ZeroAddress THEN ValueOf(list[1]) ELSE Zero0n,
              Burned(Tail(list)))

BetweenHolders(event) ==
  event.args.from # ZeroAddress /\ event.args.to # ZeroAddress

\* C29: conservation in the fungible and multi-token ledgers.  After
\* replaying any event sequence the sum of the balances of all addresses of
\* the resulting map is the total value of the mint events (sender zero) minus
\* the total value of the burn events (recipient zero), and a transfer between
\* two nonzero addresses, a self-transfer included, leaves that sum unchanged.
C29_Conservation ==
  /\ Replayed("ERC20") =>
       /\ TotalOf(holders) = BigSub(Minted(events), Burned(events))
       /\ \A k \in 1..Len(events) :
            BetweenHolders(events[k]) =>
              TotalOf(getERC20Holders(Prefix(events, k)))
                = TotalOf(getERC20Holders(Prefix(events, k - 1)))
  /\ Replayed("ERC1155") =>
       /\ TotalOf(holders)
            = BigSub(Minted(singleTransferEvents \o events),
                     Burned(singleTransferEvents \o events))
       /\ \A k \in 1..Len(singleTransferEvents) :
            BetweenHolders(singleTransferEvents[k]) =>
              TotalOf(getERC1155Holders(Prefix(singleTransferEvents, k), <<>>))
                = TotalOf(getERC1155Holders(Prefix(singleTransferEvents, k - 1),
                                            <<>>))
       /\ \A k \in 1..Len(events) :
            BetweenHolders(events[k]) =>
              TotalOf(getERC1155Holders(singleTransferEvents, Prefix(events, k)))
                = TotalOf(getERC1155Holders(singleTransferEvents,
                                            Prefix(events, k - 1)))

\* the fungible ledger has replayed a mint, a self-transfer and a burn, and
\* the balances do not add up to zero
C29_Witness ==
  /\ Replayed("ERC20")
  /\ TotalOf(holders) # Zero0n
  /\ \E j \in 1..Len(events) : events[j].args.from = ZeroAddress
                                  /\ events[j].args.to # ZeroAddress
  /\ \E j \in 1..Len(events) : events[j].args.from # ZeroAddress
                                  /\ events[j].args.from = events[j].args.to
  /\ \E j \in 1..Len(events) : events[j].args.from # ZeroAddress
                                  /\ events[j].args.to = ZeroAddress

-----------------------------------------------------------------------------
(* Properties of the collapse of the multi-token ledger *)

\* the movements of one id by one event: its value if the event moves that
\* id, summed over the positions of a batch
MovedBy(event, id) ==
  IF event.event = "TransferBatch"
  THEN MovedOf(event.args.ids, event.args.values, id)
  ELSE IF event.args.id = id THEN event.args.value ELSE Zero0n

\* the total of one id that the events of a list give to an address
RECURSIVE Received(_, _, _)
Received(list, address, id) ==
  IF list = <<>> THEN Zero0n
  ELSE BigAdd(IF list[1].args.to = address THEN MovedBy(list[1], id) ELSE Zero0n,
              Received(Tail(list), address, id))

\* the total of one id that the events of a list take from an address
RECURSIVE Sent(_, _, _)
Sent(list, address, id) ==
  IF list = <<>> THEN Zero0n
  ELSE BigAdd(IF list[1].args.from = address THEN MovedBy(list[1], id) ELSE Zero0n,
              Sent(Tail(list), address, id))

\* the signed balance of one id: received minus sent
SignedBalance(list, address, id) ==
  BigSub(Received(list, address, id), Sent(list, address, id))

\* the sum of the signed balances of an address over a set of ids
RECURSIVE SumOverIds(_, _, _)
SumOverIds(list, address, ids) ==
  IF ids = {} THEN Zero0n
  ELSE LET id == CHOOSE n \in ids : TRUE
       IN BigAdd(SignedBalance(list, address, id),
                 SumOverIds(list, address, ids \ {id}))

\* an event of the list moves some id from or to the address
Moves(list, address) ==
  \E k \in 1..Len(list) :
     /\ address \in {list[k].args.from, list[k].args.to}
     /\ list[k].event = "TransferBatch" => list[k].args.ids # <<>>

\* the snapshots a run can have loaded before the merge: none, or one that
\* lists the address
PriorHolders(address) == {<<>>, <<<<address, Num(0, 1)>>>>}

\* C30: multi-token collapse.  The value getERC1155Holders exports for an
\* address is the sum over all token ids of the address's per-id signed
\* balance, the total received minus the total sent of that id over the
\* TransferSingle and the TransferBatch events of the range; every nonzero
\* address that an event moves tokens from or to is exported, so an address
\* whose per-id balances cancel to zero is exported with balance 0n, and the
\* merge then removes it from the holders whatever they held before.
C30_Collapse ==
  Replayed("ERC1155") =>
    LET range == singleTransferEvents \o events
    IN /\ \A a \in Keys(holders) :
             Get(holders, a) = SumOverIds(range, a, TokenIds)
       /\ \A a \in LedgerAddresses \ {ZeroAddress} :
             Moves(range, a) <=> Has(holders, a)
       /\ \A a \in Keys(holders) :
             Get(holders, a) = Zero0n =>
               \A prior \in PriorHolders(a) : \A contracts \in SUBSET {a} :
                  ~Has(MergeAll("ERC1155", prior, holders, 1, contracts), a)

\* the ledger has replayed a TransferSingle that gives an address one id and
\* a TransferBatch that takes as much of the other id from it: the address is
\* exported with 0n
C30_Witness ==
  /\ Replayed("ERC1155")
  /\ \E a \in Keys(holders) :
        /\ Get(holders, a) = Zero0n
        /\ \E j \in 1..Len(singleTransferEvents) : \E k \in 1..Len(events) :
              /\ singleTransferEvents[j].args.to = a
              /\ events[k].args.from = a
              /\ events[k].args.to # a
              /\ Len(events[k].args.ids) = 1
              /\ events[k].args.ids[1] # singleTransferEvents[j].args.id

-----------------------------------------------------------------------------
(* Properties of the merge loop's calls and counters *)

IsZeroBalance(v) == v.hi = 0 /\ v.lo = 0

\* the addresses of the fresh computation whose balance is not zero
NonzeroFresh == {a \in Keys(holders) : ~IsZeroBalance(Get(holders, a))}

NoDuplicates(seq) ==
  \A j \in 1..Len(seq) : \A k \in 1..Len(seq) : seq[j] = seq[k] => j = k

Range(seq) == {seq[k] : k \in 1..Len(seq)}

\* C31: contract checks are issued only where needed.  During the filter
\* step exactly one contract-code query is issued for each address of the
\* fresh computation whose balance is nonzero, none for an address whose fresh
\* balance is zero, and none for an address that is only in the prior
\* snapshot: no address is asked for twice, every address asked for has a
\* nonzero fresh balance, and a run that gets to write has asked for all of
\* them.
C31_ContractChecks ==
  /\ NoDuplicates(codeQueries)
  /\ Range(codeQueries) \subseteq NonzeroFresh
  /\ pc = "isContract" => codeQueries[Len(codeQueries)] = holders[idx][1]
  /\ Written => Range(codeQueries) = NonzeroFresh

\* a run has written after a merge over a fresh computation with a zero and a
\* nonzero balance, and has asked for the code of the nonzero one only
C31_Witness ==
  /\ Written
  /\ codeQueries # <<>>
  /\ \E a \in Keys(holders) : IsZeroBalance(Get(holders, a))

-----------------------------------------------------------------------------
(* Properties of the ranges of successive runs *)

\* the events whose logs the ledger of a standard fetches
EventNames(type) ==
  IF type = "ERC1155" THEN {"TransferSingle", "TransferBatch"} ELSE {"Transfer"}

\* every block of lo..hi lies in a window of `windows` for each event the
\* ledger fetches
InFetchRange(windows, type, lo, hi) ==
  \A b \in lo..hi : \A name \in EventNames(type) :
     \E k \in 1..Len(windows) :
        /\ windows[k].event = name
        /\ ToNumber(windows[k].fromBlock) <= b
        /\ b <= windows[k].toBlock

\* a snapshot that records a deployment block
KnowsDeployment(snapshot) ==
  snapshot.exists /\ snapshot.deploymentBlock \notin {Null, Undefined}

\* C32: no block is left unscanned across runs.  A first run that finds the
\* deployment block fetches the logs of every block from it up to the
\* lastCheckedBlock it persists; every later successful run persists a
\* lastCheckedBlock that is not below the one it found and fetches the logs of
\* every block above the old lastCheckedBlock up to the new one.  So every
\* block from the deployment block up to the latest persisted lastCheckedBlock
\* lies in the log-fetch range of at least one of the runs.
C32_NoBlockUnscanned ==
  [][file' # file =>
       /\ (~file.exists /\ KnowsDeployment(file')) =>
             InFetchRange(queries', contractType', file'.deploymentBlock,
                          file'.lastCheckedBlock)
       /\ KnowsDeployment(file) =>
             /\ file'.lastCheckedBlock >= file.lastCheckedBlock
             /\ InFetchRange(queries', contractType', file.lastCheckedBlock + 1,
                             file'.lastCheckedBlock)]_vars

\* a second run has written a snapshot whose lastCheckedBlock is more than a
\* window above the one it found
C32_Witness ==
  /\ Written
  /\ KnowsDeployment(data)
  /\ file.lastCheckedBlock > data.lastCheckedBlock + batchSize
  /\ queries # <<>>

-----------------------------------------------------------------------------
(* Properties of the reported deltas *)

\* the run has printed its 'Tx count' and 'Unique traders' lines
DeltasReported == "deltas" \in Range(outputs)

\* the transfer events getPastEvents returned to the ledger over the range
FetchedEvents == singleTransferEvents \o events

\* C33: reported deltas.  The 'Tx count since last snapshot' a run reports is
\* the number of transfer events fetched over the scanned range, and the
\* 'Unique traders' it reports is the number of distinct addresses of the
\* fresh computation.
C33_ReportedDeltas ==
  DeltasReported =>
    /\ totalTransactions = Len(FetchedEvents)
    /\ Cardinality(uniqueHolders) = Cardinality(Keys(holders))

\* the 'Unique traders' part alone
C33_UniqueTraders ==
  DeltasReported => uniqueHolders = Keys(holders)

-----------------------------------------------------------------------------
(* Properties of the cache file of tallySankoPets.js *)

\* the token ids that have an entry in the cache file
CachedIds(cacheFileState) ==
  IF cacheFileState.exists THEN DOMAIN cacheFileState.entries ELSE {}

\* a step in which queryTokenURI returns null from a fetch
FailedFetch == petPc = "fetch" /\ metadata' = NullMetadata

\* every id of the cache file is still in the cache file after a step
EntriesKept == CachedIds(cacheFile) \subseteq CachedIds(cacheFile')

\* a failed fetch leaves the in-memory cache as it was
FailedFetchKeepsCache == FailedFetch => cache' = cache

\* C34: cached pet metadata is not lost by a failed or skipped fetch.  For
\* every combination of --refreshall, --refresheggs and --no-premint, a token
\* id that has an entry in the cache file before a run still has one in the
\* cache file written at the end of the run, also when its fetch fails or the
\* id is skipped; a failed fetch leaves the in-memory cache entry of its id
\* unchanged.
C34_CacheEntriesKept == [][EntriesKept /\ FailedFetchKeepsCache]_vars

\* the same for the runs without --refreshall only
C34_KeptWithoutRefreshAll ==
  [][(~refreshAll => EntriesKept) /\ FailedFetchKeepsCache]_vars

-----------------------------------------------------------------------------
(* Properties of the weighted distribution of cacheToCSV.js *)

WithinBounds(balances) ==
  \A k \in 1..Len(balances) : minimum <= balances[k] /\ balances[k] <= maximum

\* C35: weighted distribution bounds.  In weighted mode, for every set of
\* merged weights and every total, minimum and maximum with minimum <=
\* maximum, each address of the final recipient list (after
\* calculateWeightedShare and adjustForTotal) is allocated an amount that is
\* at least minimum and at most maximum, and the allocated amounts add up to
\* total.
C35_WeightedBounds ==
  sharePc = "saved" =>
    /\ WithinBounds(shareResult)
    /\ SumOf(shareResult) = total

\* what calculateWeightedShare returns is within the bounds, and what
\* adjustForTotal returns adds up to total
C35_EachHalfAlone ==
  /\ (sharePc = "adjustForTotal"
        /\ shareResult = calculateWeightedShare(mergedWeights, total, minimum,
                                                maximum))
       => WithinBounds(shareResult)
  /\ sharePc = "saved" => SumOf(shareResult) = total
=============================================================================
